---------------------------- MODULE Spec2Model ----------------------------
(***************************************************************************)
(* A model of the email scraper's server: the job registry and the two-    *)
(* step streaming protocol of server/routes.ts, the Site Processor         *)
(* (processUrlWithTimeout) and the discovery engine of server/scraper.ts   *)
(* (scrapeEmails, crawlWebsite, searchForEmails, extractEmailsFromHTML).   *)
(*                                                                         *)
(* Strings that the code inspects (targets, URLs, hrefs) are sequences of  *)
(* tokens, each token a literal piece of the string: "https://a.test/x"    *)
(* is <<"http", "s", "://", "a.test", "/x">>.  Concatenation is \o and     *)
(* startsWith is a prefix test, so that normalisation and URL parsing are  *)
(* computed as the code computes them.  Emails are plain strings.          *)
(*                                                                         *)
(* Node runs one handler at a time: an action is the code that runs from   *)
(* one suspension point (an await on a fetch, a timer, a request arrival)  *)
(* to the next, with every synchronous call it makes.                      *)
(***************************************************************************)
EXTENDS Integers, Sequences, FiniteSets, TLC

VARIABLES
    jobStore,    \* routes.ts:13   the job registry: job id -> target list
    nextUuid,    \* routes.ts:159  the ids uuidv4() has handed out so far
    expiryTimers,\* routes.ts:163  jobs whose 1-hour cleanup timer is pending
    streams,     \* the streaming responses that passed the lookup, in arrival order
    leaked,      \* discoveries still running after their Site Processor timed out
    crawl,       \* one crawlWebsite invocation called on its own
    page,        \* one call of the single-page scrapeEmails of part_009
    extraction,  \* one call of extractEmailsFromHTML
    lookup,      \* routes.ts:94  one request to POST /api/website-lookup
    client       \* part_005  the InputSection component following one stream

\* The server's state, and the calls made to the library on their own.
server == <<jobStore, nextUuid, expiryTimers, streams, leaked>>
direct == <<crawl, page, extraction, lookup, client>>

vars == <<jobStore, nextUuid, expiryTimers, streams, leaked,
          crawl, page, extraction, lookup, client>>

---------------------------------------------------------------------------
(* Bounds of the model.                                                    *)

MaxJobs == 2
MaxTargets == 2
MaxStreams == 1
MaxCallers == 2

---------------------------------------------------------------------------
(* Program constants.                                                      *)

timeoutMs == 15000
PageTimeoutMs == 5000
DelayMs == 500
MaxEmails == 15
DefaultMaxPages == 3
ProbeMaxPages == 1

commonPaths ==
    << "/contact", "/about", "/team", "/support",
       "/contact-us", "/get-in-touch", "/staff", "/directory" >>

---------------------------------------------------------------------------
(* Strings as token sequences.                                             *)

HttpPrefix == <<"http">>
HttpScheme == <<"http", "://">>
HttpsScheme == <<"http", "s", "://">>

\* Tokens that may stand in front of a registrable host, the registrable
\* hosts, and the path tokens of the modelled web.
HostPrefixTokens == {"www.", "blog."}
HostTokens == {"a.test", "b.test", "bin.org"}
PathTokens == {"/"} \cup {commonPaths[i] : i \in DOMAIN commonPaths}

StartsWith(s, p) ==
    Len(s) >= Len(p) /\ SubSeq(s, 1, Len(p)) = p

Drop(s, n) == SubSeq(s, n + 1, Len(s))

RECURSIVE Dedupe(_)
\* The insertion order of a JavaScript Set built from s.
Dedupe(s) ==
    IF s = <<>> THEN <<>>
    ELSE LET rest == Dedupe(SubSeq(s, 1, Len(s) - 1))
             last == s[Len(s)]
         IN  IF \E i \in DOMAIN rest : rest[i] = last THEN rest
             ELSE Append(rest, last)

Range(s) == {s[i] : i \in DOMAIN s}

\* slice(0, n)
Slice(s, n) == SubSeq(s, 1, IF Len(s) < n THEN Len(s) ELSE n)

normalizeUrl(url) ==
    IF ~StartsWith(url, HttpScheme) /\ ~StartsWith(url, HttpsScheme)
    THEN HttpsScheme \o url
    ELSE url

\* new URL(url): ok is FALSE where the constructor throws.  hostname is the
\* host without a port (no modelled URL has one).
ParseURL(url) ==
    LET scheme == IF StartsWith(url, HttpsScheme) THEN HttpsScheme
                  ELSE IF StartsWith(url, HttpScheme) THEN HttpScheme
                  ELSE <<>>
        rest == Drop(url, Len(scheme))
        hostLen == IF rest # <<>> /\ rest[1] \in HostTokens THEN 1
                   ELSE IF Len(rest) >= 2 /\ rest[1] \in HostPrefixTokens
                           /\ rest[2] \in HostTokens THEN 2
                   ELSE 0
        path == Drop(rest, hostLen)
        ok == /\ scheme # <<>>
              /\ hostLen > 0
              /\ \A i \in DOMAIN path : path[i] \in PathTokens
    IN  [ ok |-> ok,
          protocol |-> scheme,
          hostname |-> IF ok THEN SubSeq(rest, 1, hostLen) ELSE <<>>,
          pathname |-> IF ok THEN path ELSE <<>> ]

\* hostname.replace(/^www\./, "")
StripWww(host) ==
    IF host # <<>> /\ host[1] = "www." THEN Drop(host, 1) ELSE host

extractDomain(url) ==
    LET u == ParseURL(normalizeUrl(url))
    IN  IF u.ok THEN StripWww(u.hostname) ELSE url


---------------------------------------------------------------------------
(* The web the crawler sees.  A page is its visible text, a sequence of    *)
(* items (an email-shaped string, an obfuscated "local [at] domain" form,  *)
(* an email inside a script or style element), and its anchors' hrefs.     *)

Email(v) == [kind |-> "email", v |-> v]
Encoded(local, domain) == [kind |-> "encoded", local |-> local, domain |-> domain]
InScript(v) == [kind |-> "script", v |-> v]

BigPageSize == 17

UrlA == HttpsScheme \o <<"a.test">>
UrlB == HttpsScheme \o <<"b.test">>

NoPage == [text |-> <<>>, anchors |-> <<>>, exists |-> FALSE]
Page(text, anchors) == [text |-> text, anchors |-> anchors, exists |-> TRUE]

PageAt(url) ==
    CASE url = UrlA ->
            Page( << Email("info@a.test"), Email("Info@a.test"),
                     InScript("js@a.test"), Email("info@a.test"),
                     Encoded("sales", "a.test") >>,
                  << <<"/about">>,
                     HttpsScheme \o <<"www.", "a.test", "/team">>,
                     UrlB,
                     HttpsScheme \o <<"blog.", "a.test">>,
                     <<"mailto:", "info@a.test", "?subject=Hi">>,
                     UrlA,
                     <<"/about">> >> )
      [] url = UrlA \o <<"/about">> ->
            Page( [i \in 1..BigPageSize |->
                      Email("u" \o ToString(i) \o "@a.test")],
                  << UrlA >> )
      [] url = HttpsScheme \o <<"www.", "a.test", "/team">> ->
            Page( << Email("ceo@a.test"), Email("info@a.test") >>, <<>> )
      [] url = UrlA \o <<"/contact">> ->
            Page( << Email("info@a.test"), Email("contact@a.test") >>,
                  << <<"mailto:", "contact@a.test">> >> )
      [] url = UrlA \o <<"/team">> ->
            Page( << Email("ceo@a.test"), Email("CEO@a.test") >>, <<>> )
      [] url = UrlB ->
            Page( << Email("hi@b.test") >>, << <<"/">> >> )
      [] OTHER -> NoPage

\* The outcomes of one axios.get and the time each takes.  A response
\* arrives at once on the model's clock; a timeout takes the full 5 s.
FetchOutcomes == {"ok", "error", "timeout"}
FetchMs(outcome) == IF outcome = "timeout" THEN PageTimeoutMs ELSE 0

---------------------------------------------------------------------------
(* extractEmailsFromHTML                                                   *)

RECURSIVE StandardMatches(_)
\* text.match(EMAIL_REGEX) on the body text with script and style removed
StandardMatches(text) ==
    IF text = <<>> THEN <<>>
    ELSE LET rest == StandardMatches(Drop(text, 1))
         IN  IF text[1].kind = "email" THEN <<text[1].v>> \o rest ELSE rest

RECURSIVE EncodedMatches(_)
\* text.match(ENCODED_EMAIL_REGEX), each rewritten with "@" for "[at]"
EncodedMatches(text) ==
    IF text = <<>> THEN <<>>
    ELSE LET rest == EncodedMatches(Drop(text, 1))
         IN  IF text[1].kind = "encoded"
             THEN <<text[1].local \o "@" \o text[1].domain>> \o rest
             ELSE rest

RECURSIVE MailtoMatches(_)
\* a[href^="mailto:"]: the address with "mailto:" and any ?query removed
MailtoMatches(anchors) ==
    IF anchors = <<>> THEN <<>>
    ELSE LET rest == MailtoMatches(Drop(anchors, 1))
             href == anchors[1]
         IN  IF Len(href) >= 2 /\ href[1] = "mailto:"
             THEN <<href[2]>> \o rest
             ELSE rest

extractEmailsFromHTML(html) ==
    Dedupe(StandardMatches(html.text) \o EncodedMatches(html.text)
           \o MailtoMatches(html.anchors))

---------------------------------------------------------------------------
(* EMAIL_REGEX and ENCODED_EMAIL_REGEX on the characters of a string.  A   *)
(* string is here the sequence of its characters, so that what the two     *)
(* expressions match is computed and not assumed.  (The pages of the       *)
(* modelled web above are kept as items, one per match, which stands for   *)
(* text whose emails are set apart by white space.)                        *)

Alpha ==
    { "a", "b", "c", "d", "e", "f", "g", "h", "i", "j", "k", "l", "m",
      "n", "o", "p", "q", "r", "s", "t", "u", "v", "w", "x", "y", "z",
      "A", "B", "C", "D", "E", "F", "G", "H", "I", "J", "K", "L", "M",
      "N", "O", "P", "Q", "R", "S", "T", "U", "V", "W", "X", "Y", "Z" }
Digit == { "0", "1", "2", "3", "4", "5", "6", "7", "8", "9" }
\* [a-zA-Z0-9._%+-] and [a-zA-Z0-9.-]
LocalChars == Alpha \cup Digit \cup { ".", "_", "%", "+", "-" }
DomainChars == Alpha \cup Digit \cup { ".", "-" }
\* \s
Space == { " ", "\n", "\t" }

Max(S) == CHOOSE x \in S : \A y \in S : y <= x
Min(S) == CHOOSE x \in S : \A y \in S : x <= y

\* The last index of the longest run of class characters that starts at i
\* (i - 1 when s[i] is not one): what a greedy class* consumes.
RunEnd(s, i, class) ==
    Max({i - 1} \cup {e \in i..Len(s) : \A k \in i..e : s[k] \in class})

\* The dots of the domain run a..e that two letters follow: where the
\* \.[a-zA-Z]{2,} of both expressions can begin.
TldDots(s, a, e) ==
    {k \in (a + 1)..e : /\ s[k] = "."
                        /\ k + 2 <= e
                        /\ s[k + 1] \in Alpha
                        /\ s[k + 2] \in Alpha}

\* The end of the match of EMAIL_REGEX that starts at i, 0 when there is
\* none.  The local part runs up to an "@"; the domain part is greedy, so
\* the last dot that two letters follow starts the final label, which
\* takes every letter after it.
EmailMatchEnd(s, i) ==
    LET r == RunEnd(s, i, LocalChars)
        e == RunEnd(s, r + 2, DomainChars)
        dots == TldDots(s, r + 2, e)
    IN  IF r >= i /\ r + 1 <= Len(s) /\ s[r + 1] = "@" /\ dots # {}
        THEN RunEnd(s, Max(dots) + 1, Alpha)
        ELSE 0

RECURSIVE MatchEmailRegex(_, _)
\* text.match(EMAIL_REGEX) from index from on: the matches left to right,
\* each search resuming after the previous match.
MatchEmailRegex(s, from) ==
    LET starts == {i \in from..Len(s) : EmailMatchEnd(s, i) > 0}
    IN  IF starts = {} THEN <<>>
        ELSE LET i == Min(starts)
                 m == EmailMatchEnd(s, i)
             IN  <<SubSeq(s, i, m)>> \o MatchEmailRegex(s, m + 1)

\* ENCODED_EMAIL_REGEX with one blank on each side of "[at]" in place of \s*.
EncodedMatchAtOneBlank(s, i) ==
    LET r == RunEnd(s, i, LocalChars)
        b == r + 2
        a == b + 5
        e == RunEnd(s, a, DomainChars)
        dots == TldDots(s, a, e)
        ok == /\ r >= i
              /\ a <= Len(s)
              /\ SubSeq(s, r + 1, a - 1) = << " ", "[", "a", "t", "]", " " >>
              /\ dots # {}
        end == IF ok THEN RunEnd(s, Max(dots) + 1, Alpha) ELSE 0
    IN  [ ok |-> ok,
          end |-> end,
          email |-> IF ok THEN SubSeq(s, i, r) \o << "@" >> \o SubSeq(s, a, end)
                    ELSE <<>> ]

\* The match of ENCODED_EMAIL_REGEX that starts at i, and the string that
\* encoded.replace(/\s*\[at\]\s*/, "@") makes of it.
EncodedMatchAt(s, i) ==
    LET r == RunEnd(s, i, LocalChars)
        b == RunEnd(s, r + 1, Space) + 1
        a == RunEnd(s, b + 4, Space) + 1
        e == RunEnd(s, a, DomainChars)
        dots == TldDots(s, a, e)
        ok == /\ r >= i
              /\ b + 3 <= Len(s)
              /\ SubSeq(s, b, b + 3) = << "[", "a", "t", "]" >>
              /\ dots # {}
        end == IF ok THEN RunEnd(s, Max(dots) + 1, Alpha) ELSE 0
    IN  [ ok |-> ok,
          end |-> end,
          email |-> IF ok THEN SubSeq(s, i, r) \o << "@" >> \o SubSeq(s, a, end)
                    ELSE <<>> ]

RECURSIVE MatchEncodedRegex(_, _)
\* scraper.ts:123-129: the rewritten matches that EMAIL_REGEX accepts.
MatchEncodedRegex(s, from) ==
    LET starts == {i \in from..Len(s) : EncodedMatchAt(s, i).ok}
    IN  IF starts = {} THEN <<>>
        ELSE LET m == EncodedMatchAt(s, Min(starts))
                 rest == MatchEncodedRegex(s, m.end + 1)
             IN  IF MatchEmailRegex(m.email, 1) # <<>>
                 THEN <<m.email>> \o rest
                 ELSE rest

\* trim()
Trim(s) ==
    LET inked == {k \in DOMAIN s : s[k] \notin Space}
    IN  IF inked = {} THEN <<>> ELSE SubSeq(s, Min(inked), Max(inked))

\* split("?")[0]
BeforeQuery(s) ==
    LET marks == {k \in DOMAIN s : s[k] = "?"}
    IN  IF marks = {} THEN s ELSE SubSeq(s, 1, Min(marks) - 1)

---------------------------------------------------------------------------
(* extractEmailsFromHTML on markup: a document is the sequence of the      *)
(* elements of its body, each with its tag, its text and, for an anchor,   *)
(* its href.                                                               *)

Element(tag, text, href) == [tag |-> tag, text |-> text, href |-> href]

RECURSIVE BodyText(_)
\* $("script, style").remove(); $("body").text(): the text nodes that are
\* left, joined with nothing between them.
BodyText(doc) ==
    IF doc = <<>> THEN <<>>
    ELSE (IF doc[1].tag \in {"script", "style"} THEN <<>> ELSE doc[1].text)
         \o BodyText(Drop(doc, 1))

MailtoPrefix == << "m", "a", "i", "l", "t", "o", ":" >>

RECURSIVE MailtoLinksKeepQuery(_)
\* The mailto links without split("?")[0].
MailtoLinksKeepQuery(doc) ==
    IF doc = <<>> THEN <<>>
    ELSE LET el == doc[1]
             href == Trim(Drop(el.href, Len(MailtoPrefix)))
             rest == MailtoLinksKeepQuery(Drop(doc, 1))
         IN  IF /\ el.tag = "a"
                /\ StartsWith(el.href, MailtoPrefix)
                /\ href # <<>>
                /\ MatchEmailRegex(href, 1) # <<>>
             THEN <<href>> \o rest
             ELSE rest

RECURSIVE MailtoLinks(_)
\* scraper.ts:132-137
MailtoLinks(doc) ==
    IF doc = <<>> THEN <<>>
    ELSE LET el == doc[1]
             href == BeforeQuery(Trim(Drop(el.href, Len(MailtoPrefix))))
             rest == MailtoLinks(Drop(doc, 1))
         IN  IF /\ el.tag = "a"
                /\ StartsWith(el.href, MailtoPrefix)
                /\ href # <<>>
                /\ MatchEmailRegex(href, 1) # <<>>
             THEN <<href>> \o rest
             ELSE rest

\* extractEmailsFromHTML, scraper.ts:112-140, on a document.
extractEmailsFromMarkup(doc) ==
    LET text == BodyText(doc)
    IN  Dedupe(MatchEmailRegex(text, 1) \o MatchEncodedRegex(text, 1)
               \o MailtoLinks(doc))

---------------------------------------------------------------------------
(* The single-page scraper of part_009: fetchPageContent,                  *)
(* extractFirstEmailSimple and its scrapeEmails.  A nullable value is a    *)
(* sequence of length 0 (null) or 1.                                       *)

Null == <<>>
Some(v) == <<v>>

OkStatus == 200
SlowMs == 5000

\* How axios.get settles: resolved with a 2xx status and the body, or
\* rejected with an error that has a code, a message and, when the server
\* answered, a response.  ms is the time Date.now() measured.
Resolved(status, data, ms) ==
    [ resolved |-> TRUE, status |-> status, data |-> data, code |-> "",
      hasResponse |-> TRUE, message |-> "", ms |-> ms ]
Rejected(code, hasResponse, status, message, ms) ==
    [ resolved |-> FALSE, status |-> status, data |-> <<>>, code |-> code,
      hasResponse |-> hasResponse, message |-> message, ms |-> ms ]

\* Raw HTML a page may answer with.
BodyEmpty == <<>>
BodyNoEmail == << "N", "o", " ", "c", "o", "n", "t", "a", "c", "t" >>
BodyOneEmail == << "M", "a", "i", "l", " ", "a", "@", "b", ".", "c", "c", "." >>
BodyTwoEmails == << "x", " ", "c", "@", "d", ".", "e", "e", ",", " ", "a", "@", "b", ".", "c", "c" >>
BodyEncoded == << "u", "s", "e", "r", " ", "[", "a", "t", "]", " ", "b", ".", "c", "c" >>
BodyLocalhost == << "i", "n", "f", "o", "@", "l", "o", "c", "a", "l", "h", "o", "s", "t" >>
Bodies ==
    { BodyEmpty, BodyNoEmail, BodyOneEmail, BodyTwoEmails, BodyEncoded,
      BodyLocalhost }

Durations == {0, PageTimeoutMs, PageTimeoutMs + 1}

AxiosOutcomes ==
    {Resolved(status, data, ms) :
        status \in {OkStatus, 204}, data \in Bodies, ms \in Durations}
    \cup {Rejected("ECONNABORTED", FALSE, 0, "timeout of 5000ms exceeded", ms) :
             ms \in Durations \ {0}}
    \cup {Rejected("ERR_BAD_REQUEST", TRUE, 404,
                   "Request failed with status code 404", ms) : ms \in Durations}
    \cup {Rejected("ERR_BAD_RESPONSE", TRUE, 500,
                   "Request failed with status code 500", ms) : ms \in Durations}
    \cup {Rejected("ERR_NETWORK", FALSE, 0, "Network Error", ms) : ms \in Durations}

\* fetchPageContent with every rejection reported as a fetch error.
fetchPageContentUnclassified(outcome) ==
    IF outcome.resolved
    THEN [ html |-> Some(outcome.data),
           statusCode |-> Some(outcome.status),
           error |-> Null,
           duration |-> outcome.ms ]
    ELSE IF outcome.hasResponse
    THEN [ html |-> Null,
           statusCode |-> Some(outcome.status),
           error |-> Some("Fetch error: " \o ToString(outcome.status)),
           duration |-> outcome.ms ]
    ELSE [ html |-> Null,
           statusCode |-> Null,
           error |-> Some("Fetch error: " \o outcome.message),
           duration |-> outcome.ms ]

\* fetchPageContent, part_009:49-90, once axios.get has settled.
fetchPageContent(outcome) ==
    IF outcome.resolved
    THEN [ html |-> Some(outcome.data),
           statusCode |-> Some(outcome.status),
           error |-> Null,
           duration |-> outcome.ms ]
    ELSE IF outcome.code = "ECONNABORTED"
    THEN [ html |-> Null,
           statusCode |-> Null,
           error |-> Some("Timeout"),
           duration |-> outcome.ms ]
    ELSE IF outcome.hasResponse
    THEN [ html |-> Null,
           statusCode |-> Some(outcome.status),
           error |-> Some("Fetch error: " \o ToString(outcome.status)),
           duration |-> outcome.ms ]
    ELSE [ html |-> Null,
           statusCode |-> Null,
           error |-> Some("Fetch error: " \o outcome.message),
           duration |-> outcome.ms ]

\* extractFirstEmailSimple, part_009:195-208, on a string.
extractFirstEmailSimple(htmlContent) ==
    LET matches == MatchEmailRegex(htmlContent, 1)
    IN  IF matches # <<>> /\ "@" \in Range(matches[1])
        THEN Some(matches[1])
        ELSE Null

\* Whether the scrapeEmails of part_009 gets as far as line 321 with this
\* fetch result: no timeout, a body, status 200.
ReachesExtraction(fetchResult) ==
    /\ ~(fetchResult.error = Some("Timeout") \/ fetchResult.duration > SlowMs)
    /\ fetchResult.html # Null /\ fetchResult.html # Some(<<>>)
    /\ fetchResult.statusCode = Some(OkStatus)

\* scrapeEmailsAfterFetch without the status test of lines 315-318.
scrapeEmailsAfterFetchAnyStatus(fetchResult) ==
    IF fetchResult.error = Some("Timeout") \/ fetchResult.duration > SlowMs
    THEN <<>>
    ELSE IF fetchResult.html = Null \/ fetchResult.html = Some(<<>>)
    THEN <<>>
    ELSE extractFirstEmailSimple(fetchResult.html[1])

\* scrapeEmails of part_009:295-334 from the return of its await on.  The
\* list [email] and the nullable email have the same shape here.
scrapeEmailsAfterFetch(fetchResult) ==
    IF ReachesExtraction(fetchResult)
    THEN extractFirstEmailSimple(fetchResult.html[1])
    ELSE <<>>

---------------------------------------------------------------------------
(* The Domain Resolver: extractDomainFromHtml of server/utils.ts.  A       *)
(* results page is the sequence of its anchors, each with its class, its   *)
(* href and its text; strings are sequences of characters.                 *)

MAX_LINKS_TO_CHECK == 5

UpperCase ==
    << "A", "B", "C", "D", "E", "F", "G", "H", "I", "J", "K", "L", "M",
       "N", "O", "P", "Q", "R", "S", "T", "U", "V", "W", "X", "Y", "Z" >>
LowerCase ==
    << "a", "b", "c", "d", "e", "f", "g", "h", "i", "j", "k", "l", "m",
       "n", "o", "p", "q", "r", "s", "t", "u", "v", "w", "x", "y", "z" >>

\* toLowerCase()
Lower(s) ==
    [ i \in DOMAIN s |->
        IF \E k \in DOMAIN UpperCase : UpperCase[k] = s[i]
        THEN LowerCase[CHOOSE k \in DOMAIN UpperCase : UpperCase[k] = s[i]]
        ELSE s[i] ]

\* includes(), endsWith() and indexOf() (0 for -1)
Includes(s, sub) ==
    \E i \in 1..(Len(s) - Len(sub) + 1) : SubSeq(s, i, i + Len(sub) - 1) = sub
EndsWith(s, suf) ==
    Len(s) >= Len(suf) /\ SubSeq(s, Len(s) - Len(suf) + 1, Len(s)) = suf
IndexOf(s, sub) ==
    IF Includes(s, sub)
    THEN Min({i \in 1..(Len(s) - Len(sub) + 1) :
                 SubSeq(s, i, i + Len(sub) - 1) = sub})
    ELSE 0

\* An anchor of the page.  uddg is null when /[?&]uddg=([^&]+)/ finds
\* nothing in the href, else the captured value: whether
\* decodeURIComponent accepts it, and what it decodes to.
Link(class, href, uddg, text) ==
    [ class |-> class, href |-> href, uddg |-> uddg, text |-> text ]
Uddg(decodable, value) == [decodable |-> decodable, value |-> value]

commonNonMainDomains ==
    { << "f", "a", "c", "e", "b", "o", "o", "k", ".", "c", "o", "m" >>,
      << "t", "w", "i", "t", "t", "e", "r", ".", "c", "o", "m" >>,
      << "l", "i", "n", "k", "e", "d", "i", "n", ".", "c", "o", "m" >>,
      << "y", "o", "u", "t", "u", "b", "e", ".", "c", "o", "m" >>,
      << "i", "n", "s", "t", "a", "g", "r", "a", "m", ".", "c", "o", "m" >>,
      << "p", "i", "n", "t", "e", "r", "e", "s", "t", ".", "c", "o", "m" >>,
      << "t", "i", "k", "t", "o", "k", ".", "c", "o", "m" >>,
      << "w", "i", "k", "i", "p", "e", "d", "i", "a", ".", "o", "r", "g" >>,
      << "a", "m", "a", "z", "o", "n", ".", "c", "o", "m" >>,
      << "e", "b", "a", "y", ".", "c", "o", "m" >> }
fileExtensions ==
    { << ".", "p", "d", "f" >>,
      << ".", "j", "p", "g" >>,
      << ".", "p", "n", "g" >>,
      << ".", "g", "i", "f" >>,
      << ".", "z", "i", "p" >>,
      << ".", "m", "p", "4" >>,
      << ".", "m", "p", "3" >> }
GenericTerms ==
    { << "g", "e", "n", "e", "r", "i", "c" >>,
      << "p", "l", "a", "t", "f", "o", "r", "m" >>,
      << "s", "e", "r", "v", "i", "c", "e" >> }

\* new URL(rawUrl) for the URLs of the model: a scheme up to "://", a host
\* of letters, digits, dots and hyphens, and a path.  ok is FALSE where the
\* constructor throws.  The host comes back in lower case.
ParseRawUrl(rawUrl) ==
    LET mark == IndexOf(rawUrl, << ":", "/", "/" >>)
        rest == BeforeQuery(Drop(rawUrl, mark + 2))
        slash == IndexOf(rest, << "/" >>)
        host == IF slash = 0 THEN rest ELSE SubSeq(rest, 1, slash - 1)
        ok == /\ mark > 1
              /\ host # <<>>
              /\ \A i \in DOMAIN host : host[i] \in DomainChars
    IN  [ ok |-> ok,
          hostname |-> IF ok THEN Lower(host) ELSE <<>>,
          pathname |-> IF ok /\ slash > 0 THEN Drop(rest, slash - 1)
                       ELSE << "/" >> ]

\* LinkCandidate without the test of utils.ts:52-54.
LinkCandidateUnfiltered(link) ==
    LET raw == link.href
        redirect == \/ StartsWith(raw, << "/", "l", "/" >>)
                    \/ Includes(raw, << "d", "u", "c", "k", "d", "u", "c", "k", "g", "o", ".", "c", "o", "m", "/", "l", "/" >>)
        dropped == redirect /\ (link.uddg = Null \/ ~link.uddg[1].decodable)
        target == IF redirect /\ ~dropped THEN link.uddg[1].value ELSE raw
        relative == /\ ~StartsWith(target, << "h", "t", "t", "p" >>)
                    /\ ~StartsWith(target, << "/", "/" >>)
                    /\ StartsWith(target, << "/" >>)
        rawUrl == IF StartsWith(target, << "h", "t", "t", "p" >>) THEN target
                  ELSE IF StartsWith(target, << "/", "/" >>)
                  THEN << "h", "t", "t", "p", "s", ":" >> \o target
                  ELSE << "h", "t", "t", "p", "s", ":", "/", "/" >> \o target
        urlObj == ParseRawUrl(rawUrl)
        domain == IF StartsWith(urlObj.hostname, << "w", "w", "w", "." >>)
                  THEN Drop(urlObj.hostname, 4)
                  ELSE urlObj.hostname
    IN  IF dropped \/ relative \/ ~urlObj.ok
        THEN <<>>
        ELSE << [domain |-> domain, text |-> link.text] >>

\* utils.ts:17-59, one turn of the loop: the candidate the link adds to
\* potentialDomains, none when the turn ends in a continue or in the catch.
LinkCandidate(link) ==
    LET raw == link.href
        redirect == \/ StartsWith(raw, << "/", "l", "/" >>)
                    \/ Includes(raw, << "d", "u", "c", "k", "d", "u", "c", "k", "g", "o", ".", "c", "o", "m", "/", "l", "/" >>)
        dropped == redirect /\ (link.uddg = Null \/ ~link.uddg[1].decodable)
        target == IF redirect /\ ~dropped THEN link.uddg[1].value ELSE raw
        relative == /\ ~StartsWith(target, << "h", "t", "t", "p" >>)
                    /\ ~StartsWith(target, << "/", "/" >>)
                    /\ StartsWith(target, << "/" >>)
        rawUrl == IF StartsWith(target, << "h", "t", "t", "p" >>) THEN target
                  ELSE IF StartsWith(target, << "/", "/" >>)
                  THEN << "h", "t", "t", "p", "s", ":" >> \o target
                  ELSE << "h", "t", "t", "p", "s", ":", "/", "/" >> \o target
        urlObj == ParseRawUrl(rawUrl)
        domain == IF StartsWith(urlObj.hostname, << "w", "w", "w", "." >>)
                  THEN Drop(urlObj.hostname, 4)
                  ELSE urlObj.hostname
        skipped == \/ \E d \in commonNonMainDomains : Includes(domain, d)
                   \/ \E ext \in fileExtensions : EndsWith(urlObj.pathname, ext)
    IN  IF dropped \/ relative \/ ~urlObj.ok \/ skipped
        THEN <<>>
        ELSE << [domain |-> domain, text |-> link.text] >>

RECURSIVE Candidates(_)
Candidates(links) ==
    IF links = <<>> THEN <<>>
    ELSE LinkCandidate(links[1]) \o Candidates(Drop(links, 1))

\* LinksChecked with a limit that counts only the links kept as candidates.
LinksCheckedCountingKept(html) ==
    LET organic == SelectSeq(html, LAMBDA l : l.class \in {"result__a", "result__url"})
        last == Max({k \in 0..Len(organic) :
                        Len(Candidates(SubSeq(organic, 1, k))) <= MAX_LINKS_TO_CHECK})
    IN  SubSeq(organic, 1, last)

\* The matches of linkRegex that the loop of utils.ts:15 takes up.
LinksChecked(html) ==
    Slice(SelectSeq(html, LAMBDA l : l.class \in {"result__a", "result__url"}),
          MAX_LINKS_TO_CHECK)

potentialDomains(html) == Candidates(LinksChecked(html))

\* The score the comparator of utils.ts:65-84 gives a candidate.
Score(c, lowerQuery) ==
    LET vague(s) == \E g \in GenericTerms : Includes(Lower(s), g)
    IN  (IF Includes(c.domain, lowerQuery) THEN 3 ELSE 0)
        + (IF Includes(Lower(c.text), lowerQuery) THEN 2 ELSE 0)
        + (IF StartsWith(c.domain, lowerQuery) THEN 1 ELSE 0)
        - (IF vague(c.domain) /\ ~vague(lowerQuery) THEN 1 ELSE 0)

RECURSIVE SortByScoreLastOnTies(_, _)
\* SortByScore with candidates of equal score in reverse page order.
SortByScoreLastOnTies(cands, lowerQuery) ==
    IF cands = <<>> THEN <<>>
    ELSE LET best == Max({i \in DOMAIN cands :
                             \A j \in DOMAIN cands :
                                 Score(cands[j], lowerQuery)
                                     <= Score(cands[i], lowerQuery)})
         IN  << cands[best] >>
             \o SortByScoreLastOnTies(SubSeq(cands, 1, best - 1)
                            \o SubSeq(cands, best + 1, Len(cands)), lowerQuery)

RECURSIVE SortByScore(_, _)
\* Array.prototype.sort with the comparator scoreB - scoreA: descending by
\* score, candidates of equal score in their order on the page.
SortByScore(cands, lowerQuery) ==
    IF cands = <<>> THEN <<>>
    ELSE LET best == Min({i \in DOMAIN cands :
                             \A j \in DOMAIN cands :
                                 Score(cands[j], lowerQuery)
                                     <= Score(cands[i], lowerQuery)})
         IN  << cands[best] >>
             \o SortByScore(SubSeq(cands, 1, best - 1)
                            \o SubSeq(cands, best + 1, Len(cands)), lowerQuery)

\* extractDomainFromHtml, utils.ts:3-92: the domain, or null.
extractDomainFromHtml(html, query) ==
    LET cands == potentialDomains(html)
    IN  IF cands = <<>> THEN Null
        ELSE Some(SortByScore(cands, Lower(query))[1].domain)

---------------------------------------------------------------------------
(* crawlWebsite: the state of one invocation between two awaits.           *)

RECURSIVE CrawlLoopRevisit(_)
RECURSIVE CrawlLoopCountsSkipped(_)
\* crawlWebsite's loop counting a visited URL it dequeues as a page.
CrawlLoopCountsSkipped(cw) ==
    IF cw.urlsToVisit # <<>> /\ cw.pagesVisited < cw.maxPages
    THEN LET currentUrl == cw.urlsToVisit[1]
             shifted == [cw EXCEPT !.urlsToVisit = Drop(@, 1)]
         IN  IF currentUrl \in cw.visitedUrls
             THEN CrawlLoopCountsSkipped([shifted EXCEPT !.pagesVisited = @ + 1])
             ELSE [shifted EXCEPT !.visitedUrls = @ \cup {currentUrl},
                                  !.pagesVisited = @ + 1,
                                  !.currentUrl = currentUrl,
                                  !.running = TRUE]
    ELSE [cw EXCEPT !.running = FALSE, !.currentUrl = <<>>]

\* crawlWebsite's loop leaving at the continue of line 157.
CrawlLoopBreakOnVisited(cw) ==
    IF cw.urlsToVisit # <<>> /\ cw.pagesVisited < cw.maxPages
    THEN LET currentUrl == cw.urlsToVisit[1]
             shifted == [cw EXCEPT !.urlsToVisit = Drop(@, 1)]
         IN  IF currentUrl \in cw.visitedUrls
             THEN [shifted EXCEPT !.running = FALSE, !.currentUrl = <<>>]
             ELSE [shifted EXCEPT !.visitedUrls = @ \cup {currentUrl},
                                  !.pagesVisited = @ + 1,
                                  !.currentUrl = currentUrl,
                                  !.running = TRUE]
    ELSE [cw EXCEPT !.running = FALSE, !.currentUrl = <<>>]

\* CrawlLoop without the visitedUrls test on the dequeued URL.
CrawlLoopRevisit(cw) ==
    IF cw.urlsToVisit # <<>> /\ cw.pagesVisited < cw.maxPages
    THEN LET currentUrl == cw.urlsToVisit[1]
             shifted == [cw EXCEPT !.urlsToVisit = Drop(@, 1)]
         IN  [shifted EXCEPT !.visitedUrls = @ \cup {currentUrl},
                             !.pagesVisited = @ + 1,
                             !.currentUrl = currentUrl,
                             !.running = TRUE]
    ELSE [cw EXCEPT !.running = FALSE, !.currentUrl = <<>>]

RECURSIVE CrawlLoopInclusive(_)
\* CrawlLoop with pagesVisited <= maxPages as its loop condition.
CrawlLoopInclusive(cw) ==
    IF cw.urlsToVisit # <<>> /\ cw.pagesVisited <= cw.maxPages
    THEN LET currentUrl == cw.urlsToVisit[1]
             shifted == [cw EXCEPT !.urlsToVisit = Drop(@, 1)]
         IN  IF currentUrl \in cw.visitedUrls
             THEN CrawlLoopInclusive(shifted)
             ELSE [shifted EXCEPT !.visitedUrls = @ \cup {currentUrl},
                                  !.pagesVisited = @ + 1,
                                  !.currentUrl = currentUrl,
                                  !.running = TRUE]
    ELSE [cw EXCEPT !.running = FALSE, !.currentUrl = <<>>]

RECURSIVE CrawlLoopLifo(_)
\* CrawlLoop taking the URL pushed last (pop() in place of shift()).
CrawlLoopLifo(cw) ==
    IF cw.urlsToVisit # <<>> /\ cw.pagesVisited < cw.maxPages
    THEN LET currentUrl == cw.urlsToVisit[Len(cw.urlsToVisit)]
             shifted == [cw EXCEPT !.urlsToVisit = SubSeq(@, 1, Len(@) - 1)]
         IN  IF currentUrl \in cw.visitedUrls
             THEN CrawlLoopLifo(shifted)
             ELSE [shifted EXCEPT !.visitedUrls = @ \cup {currentUrl},
                                  !.pagesVisited = @ + 1,
                                  !.currentUrl = currentUrl,
                                  !.running = TRUE]
    ELSE [cw EXCEPT !.running = FALSE, !.currentUrl = <<>>]

RECURSIVE CrawlLoop(_)
\* The head of the while loop: dequeue until an unvisited URL is found and
\* requested (running), or the frontier is empty or the budget is spent.
CrawlLoop(cw) ==
    IF cw.urlsToVisit # <<>> /\ cw.pagesVisited < cw.maxPages
    THEN LET currentUrl == cw.urlsToVisit[1]
             shifted == [cw EXCEPT !.urlsToVisit = Drop(@, 1)]
         IN  IF currentUrl \in cw.visitedUrls
             THEN CrawlLoop(shifted)
             ELSE [shifted EXCEPT !.visitedUrls = @ \cup {currentUrl},
                                  !.pagesVisited = @ + 1,
                                  !.currentUrl = currentUrl,
                                  !.running = TRUE]
    ELSE [cw EXCEPT !.running = FALSE, !.currentUrl = <<>>]

CrawlStart(url, maxPages) ==
    CrawlLoop([ domain |-> extractDomain(url),
                visitedUrls |-> {},
                foundEmails |-> <<>>,
                urlsToVisit |-> <<normalizeUrl(url)>>,
                pagesVisited |-> 0,
                maxPages |-> maxPages,
                currentUrl |-> <<>>,
                running |-> FALSE ])

\* The href of one anchor as the link loop resolves it; <<>> when skipped.
ResolveHref(href, currentUrl) ==
    IF href = <<>> THEN <<>>
    ELSE IF href[1] \in PathTokens
    THEN LET baseUrl == ParseURL(currentUrl)
         IN  IF baseUrl.ok THEN baseUrl.protocol \o baseUrl.hostname \o href
             ELSE <<>>
    ELSE IF ~StartsWith(href, HttpPrefix) THEN <<>>
    ELSE href

RECURSIVE EnqueueLinksAnyHost(_, _, _)
\* EnqueueLinks without the linkDomain === domain test.
EnqueueLinksAnyHost(cw, anchors, currentUrl) ==
    IF anchors = <<>> THEN cw
    ELSE LET href == ResolveHref(anchors[1], currentUrl)
             next == IF href # <<>> /\ href \notin cw.visitedUrls
                     THEN [cw EXCEPT !.urlsToVisit = Append(@, href)]
                     ELSE cw
         IN  EnqueueLinksAnyHost(next, Drop(anchors, 1), currentUrl)

RECURSIVE EnqueueLinks(_, _, _)
EnqueueLinks(cw, anchors, currentUrl) ==
    IF anchors = <<>> THEN cw
    ELSE LET href == ResolveHref(anchors[1], currentUrl)
             next == IF /\ href # <<>>
                        /\ extractDomain(href) = cw.domain
                        /\ href \notin cw.visitedUrls
                     THEN [cw EXCEPT !.urlsToVisit = Append(@, href)]
                     ELSE cw
         IN  EnqueueLinks(next, Drop(anchors, 1), currentUrl)

\* CrawlAfterPage without the inner try: a failed fetch ends the crawl.
CrawlAfterPageAbort(cw, outcome, html) ==
    IF outcome = "ok" /\ html.exists
    THEN LET merged == [cw EXCEPT !.foundEmails =
                           Dedupe(@ \o extractEmailsFromHTML(html))]
         IN  IF cw.pagesVisited < cw.maxPages
             THEN EnqueueLinks(merged, html.anchors, cw.currentUrl)
             ELSE merged
    ELSE [cw EXCEPT !.urlsToVisit = <<>>]

\* The body of the inner try once axios.get has settled, html being the
\* response's data when it resolved.
CrawlAfterPage(cw, outcome, html) ==
    IF outcome = "ok" /\ html.exists
    THEN LET merged == [cw EXCEPT !.foundEmails =
                           Dedupe(@ \o extractEmailsFromHTML(html))]
         IN  IF cw.pagesVisited < cw.maxPages
             THEN EnqueueLinks(merged, html.anchors, cw.currentUrl)
             ELSE merged
    ELSE cw

\* The same on the modelled web.
CrawlAfterFetch(cw, outcome) ==
    CrawlAfterPage(cw, outcome, PageAt(cw.currentUrl))

---------------------------------------------------------------------------
(* scrapeEmails and searchForEmails: one discovery, between two awaits.    *)
(* await names the suspension point: the axios.get of crawlWebsite, the    *)
(* delay that ends a crawl iteration, the delay that ends a probed path;   *)
(* "done" once scrapeEmails has returned allEmails.  crawlResults is the   *)
(* local of scraper.ts:234.  probed and probeOk keep what the site sees of *)
(* searchForEmails: the URLs it requested, in order, and the paths whose   *)
(* request was answered.                                                   *)

ProbeUrl(domain, pathIdx) == HttpsScheme \o domain \o <<commonPaths[pathIdx]>>

\* scrapeEmails up to its first await: the seed crawl has requested a page.
ScrapeStart(url) ==
    [ phase |-> "crawl",
      domain |-> extractDomain(url),
      allEmails |-> <<>>,
      pathIdx |-> 0,
      emails |-> <<>>,
      crawlResults |-> <<>>,
      probed |-> <<>>,
      probeOk |-> {},
      cw |-> CrawlStart(url, DefaultMaxPages),
      await |-> "fetch" ]

DiscAfterFetch(d, outcome) ==
    [d EXCEPT !.cw = CrawlAfterFetch(@, outcome),
              !.await = "crawlDelay",
              !.probeOk = IF d.phase = "probe" /\ outcome = "ok"
                          THEN @ \cup {d.pathIdx} ELSE @]

\* The 500 ms at the end of a crawl iteration are over: the next iteration
\* requests a page, or the crawl returns to scrapeEmails (which starts the
\* probe of the first path) or to searchForEmails (which starts its delay).
DiscAfterCrawlDelay(d) ==
    LET cw == CrawlLoop(d.cw)
        first == CrawlStart(ProbeUrl(d.domain, 1), ProbeMaxPages)
    IN  IF cw.running
        THEN [d EXCEPT !.cw = cw,
                       !.await = "fetch",
                       !.probed = IF d.phase = "probe"
                                  THEN Append(@, cw.currentUrl) ELSE @]
        ELSE IF d.phase = "crawl"
        THEN [d EXCEPT !.phase = "probe",
                       !.crawlResults = cw.foundEmails,
                       !.allEmails = Dedupe(cw.foundEmails),
                       !.pathIdx = 1,
                       !.cw = first,
                       !.probed = Append(@, first.currentUrl),
                       !.await = "fetch"]
        ELSE [d EXCEPT !.emails = @ \o cw.foundEmails,
                       !.cw = cw,
                       !.await = "probeDelay"]

\* DiscAfterProbeDelay with allEmails an array the probe's emails are
\* pushed onto, instead of a Set they are added to.
DiscAfterProbeDelayPush(d) ==
    LET next == CrawlStart(ProbeUrl(d.domain, d.pathIdx + 1), ProbeMaxPages)
    IN  IF d.pathIdx < Len(commonPaths)
        THEN [d EXCEPT !.pathIdx = @ + 1,
                       !.cw = next,
                       !.probed = Append(@, next.currentUrl),
                       !.await = "fetch"]
        ELSE [d EXCEPT !.allEmails = @ \o Dedupe(d.emails),
                       !.await = "done"]

\* DiscAfterProbeDelay with a loop that a path whose request failed ends.
DiscAfterProbeDelayStopOnFailure(d) ==
    LET next == CrawlStart(ProbeUrl(d.domain, d.pathIdx + 1), ProbeMaxPages)
    IN  IF d.pathIdx < Len(commonPaths) /\ d.pathIdx \in d.probeOk
        THEN [d EXCEPT !.pathIdx = @ + 1,
                       !.cw = next,
                       !.probed = Append(@, next.currentUrl),
                       !.await = "fetch"]
        ELSE [d EXCEPT !.allEmails = Dedupe(@ \o Dedupe(d.emails)),
                       !.await = "done"]

\* The 500 ms after a probed path are over: the next path is requested, or
\* searchForEmails returns and scrapeEmails merges and returns.
DiscAfterProbeDelay(d) ==
    LET next == CrawlStart(ProbeUrl(d.domain, d.pathIdx + 1), ProbeMaxPages)
    IN  IF d.pathIdx < Len(commonPaths)
        THEN [d EXCEPT !.pathIdx = @ + 1,
                       !.cw = next,
                       !.probed = Append(@, next.currentUrl),
                       !.await = "fetch"]
        ELSE [d EXCEPT !.allEmails = Dedupe(@ \o Dedupe(d.emails)),
                       !.await = "done"]

\* What the pending await may still take.
PendingMs(d) == IF d.await = "fetch" THEN PageTimeoutMs ELSE DelayMs

---------------------------------------------------------------------------
(* processUrlWithTimeout                                                   *)

NoCall == [active |-> FALSE]

\* Lines 24-49: the url is normalised, website derived, the timer set and
\* scrapeEmails entered.  elapsed is the time since the call, in ms.
processUrlWithTimeout(url0) ==
    LET url == IF ~StartsWith(url0, HttpScheme) /\ ~StartsWith(url0, HttpsScheme)
               THEN HttpsScheme \o url0 ELSE url0
        urlObj == ParseURL(url)
    IN  [ active |-> TRUE,
          url |-> url,
          website |-> IF urlObj.ok THEN urlObj.hostname ELSE url,
          elapsed |-> 0,
          disc |-> ScrapeStart(url) ]

\* scrapeEmailsReturn with a catch that hands back what was found so far.
scrapeEmailsReturnPartial(d, how) ==
    [threw |-> FALSE, emails |-> d.allEmails]

\* What scrapeEmails hands to its caller: allEmails when the discovery ran
\* to its end, and from the catch of scraper.ts:243-246 when something in
\* its body threw.  threw tells whether the promise rejects.
scrapeEmailsReturn(d, how) ==
    IF how = "threw"
    THEN [threw |-> FALSE, emails |-> <<>>]
    ELSE [threw |-> FALSE, emails |-> d.allEmails]

\* ResolveSuccess keeping the last 15 entries where the code keeps the first.
ResolveSuccessLastFifteen(call, emails) ==
    [website |-> call.website,
     emails |-> IF Len(emails) <= MaxEmails THEN emails
                ELSE SubSeq(emails, Len(emails) - MaxEmails + 1, Len(emails))]

\* ResolveSuccess without the slice(0, 15).
ResolveSuccessUnlimited(call, emails) ==
    [website |-> call.website, emails |-> emails]

\* Lines 52-64: the result of a discovery that returned before the timer.
ResolveSuccess(call, emails) ==
    [website |-> call.website, emails |-> Slice(emails, MaxEmails)]

\* Lines 66-76: the result when the awaited scrapeEmails rejects.
ResolveFailure(call) ==
    [website |-> call.website, emails |-> <<>>]

\* ResolveTimeout handing back what the discovery had gathered so far.
ResolveTimeoutPartial(call) ==
    [website |-> call.website, emails |-> Slice(call.disc.allEmails, MaxEmails)]

\* Lines 37-43: the result when the timer fires first.
ResolveTimeout(call) ==
    [website |-> call.website, emails |-> <<>>]

\* How the promise of processUrlWithTimeout settles.  how is "timeout" when
\* the timer fires first, else "returned" or "threw" for the discovery.
\* The executor only ever calls resolve: rejected stays FALSE.
Settle(call, how) ==
    IF how = "timeout"
    THEN [rejected |-> FALSE, result |-> ResolveTimeout(call)]
    ELSE LET ret == scrapeEmailsReturn(call.disc, how)
         IN  [ rejected |-> FALSE,
               result |-> IF ret.threw THEN ResolveFailure(call)
                          ELSE ResolveSuccess(call, ret.emails) ]

---------------------------------------------------------------------------
(* GET /api/scrape-stream: the target loop.                                *)

\* routes.ts:206
NormalizedProcessingUrl(currentUrl) ==
    IF StartsWith(currentUrl, HttpPrefix) THEN currentUrl
    ELSE HttpsScheme \o currentUrl

NoError == "none"

\* ProgressEvent reporting the url handed to the processor as currentWebsite.
ProgressEventNormalized(settled, i, urls) ==
    [ type |-> "progress",
      website |-> IF settled.rejected THEN urls[i] ELSE settled.result.website,
      emails |-> IF settled.rejected THEN <<>> ELSE settled.result.emails,
      error |-> IF settled.rejected THEN "Failed to process this URL" ELSE NoError,
      processedCount |-> i,
      totalCount |-> Len(urls),
      currentWebsite |-> NormalizedProcessingUrl(urls[i]) ]

\* dataObject of routes.ts:209-215, and of 218-225 when the processor's
\* promise rejects.
ProgressEvent(settled, i, urls) ==
    IF settled.rejected
    THEN [ type |-> "progress",
           website |-> urls[i],
           emails |-> <<>>,
           error |-> "Failed to process this URL",
           processedCount |-> i,
           totalCount |-> Len(urls),
           currentWebsite |-> urls[i] ]
    ELSE [ type |-> "progress",
           website |-> settled.result.website,
           emails |-> settled.result.emails,
           error |-> NoError,
           processedCount |-> i,
           totalCount |-> Len(urls),
           currentWebsite |-> urls[i] ]

DoneEvent == [type |-> "done"]

\* The loop body from the top of iteration i (1-based) to its await.
StartTarget(st, i) ==
    [st EXCEPT !.i = i,
               !.call = processUrlWithTimeout(NormalizedProcessingUrl(st.urls[i]))]

\* AfterResult with a loop that a failed target ends: its event is written
\* and the response ended without the later targets.
AfterResultStopOnFailure(st, how) ==
    LET settled == Settle(st.call, how)
        written == [st EXCEPT
                       !.events = Append(@, ProgressEvent(settled, st.i, st.urls)),
                       !.settled = Append(@,
                           [ how |-> how,
                             website |-> st.call.website,
                             discovered |-> Len(st.call.disc.allEmails),
                             at |-> IF how = "timeout" THEN timeoutMs
                                    ELSE st.call.elapsed ])]
    IN  IF st.i < Len(st.urls) /\ how = "returned"
        THEN StartTarget(written, st.i + 1)
        ELSE [written EXCEPT !.events = Append(@, DoneEvent),
                             !.status = "ended",
                             !.call = NoCall]

AfterResultNeedsJob(st, how) ==
    IF st.jobId \notin DOMAIN jobStore
    THEN [st EXCEPT !.status = "ended", !.call = NoCall]
    ELSE
    LET settled == Settle(st.call, how)
        written == [st EXCEPT
                       !.events = Append(@, ProgressEvent(settled, st.i, st.urls)),
                       !.settled = Append(@,
                           [ how |-> how,
                             website |-> st.call.website,
                             discovered |-> Len(st.call.disc.allEmails),
                             at |-> IF how = "timeout" THEN timeoutMs
                                    ELSE st.call.elapsed ])]
    IN  IF st.i < Len(st.urls)
        THEN StartTarget(written, st.i + 1)
        ELSE [written EXCEPT !.events = Append(@, DoneEvent),
                             !.status = "ended",
                             !.call = NoCall]

\* The continuation of the await at routes.ts:207 once the processor has
\* settled: the progress event is written, then the next iteration starts
\* or the done event is written and the response ended.  settled keeps, for
\* each target, how its call ended, how many emails its discovery held and
\* the time since the call at which the promise resolved (the timer of
\* routes.ts:37-43 fires timeoutMs after it was set).
AfterResult(st, how) ==
    LET settled == Settle(st.call, how)
        written == [st EXCEPT
                       !.events = Append(@, ProgressEvent(settled, st.i, st.urls)),
                       !.settled = Append(@,
                           [ how |-> how,
                             website |-> st.call.website,
                             discovered |-> Len(st.call.disc.allEmails),
                             at |-> IF how = "timeout" THEN timeoutMs
                                    ELSE st.call.elapsed ])]
    IN  IF st.i < Len(st.urls)
        THEN StartTarget(written, st.i + 1)
        ELSE [written EXCEPT !.events = Append(@, DoneEvent),
                             !.status = "ended",
                             !.call = NoCall]

\* FinallyDelete and ExpireDelete without the jobStore.delete.
FinallyKeep(store, jobId) == store

ExpireKeep(store, jobId) == store

\* A finally block that empties the registry.
FinallyClear(store, jobId) == <<>>

\* The finally block, routes.ts:248-253.
FinallyDelete(store, jobId) ==
    IF jobId \in DOMAIN store
    THEN [j \in DOMAIN store \ {jobId} |-> store[j]]
    ELSE store

\* The expiry callback, routes.ts:164-167.
ExpireDelete(store, jobId) ==
    IF jobId \in DOMAIN store
    THEN [j \in DOMAIN store \ {jobId} |-> store[j]]
    ELSE store

\* The registry after the continuation: the entry goes when the stream ended.
StoreAfter(st) ==
    IF st.status = "ended" THEN FinallyDelete(jobStore, st.jobId) ELSE jobStore

---------------------------------------------------------------------------
(* The requests the environment may send.                                  *)

\* A target list of the request body: any list, the empty one included.
TargetUniverse ==
    { <<"b.test">>, <<"a b">>, <<"http", "bin.org">> }

TargetLists == UNION {[1..n -> TargetUniverse] : n \in 0..MaxTargets}

\* urlListSchema, routes.ts:84-86: each entry is a URL, or any string that
\* does not start with "http"; at least one entry.
ValidTarget(t) == ParseURL(t).ok \/ ~StartsWith(t, HttpPrefix)

\* urlListSchema without the .min(1).
ValidUrlListNoMin(urls) ==
    \A i \in DOMAIN urls : ValidTarget(urls[i])

ValidUrlList(urls) ==
    /\ Len(urls) >= 1
    /\ \A i \in DOMAIN urls : ValidTarget(urls[i])

\* The jobId query parameter: absent, an id uuidv4() has issued, or a
\* string that it never issues.
MissingId == 0
UnknownId == MaxJobs + 1
RequestIds == {MissingId, UnknownId} \cup (1..(nextUuid - 1))

\* The status line of each handler's reply, a function of the request and
\* of the registry: routes.ts:153-156 and 170, and 184-192.
SubmitReply(urls) ==
    IF ~ValidUrlList(urls)
    THEN [status |-> 400, jobId |-> MissingId]
    ELSE [status |-> 200, jobId |-> nextUuid]

StreamReply(jobId) ==
    IF jobId = MissingId THEN 400
    ELSE IF jobId \notin DOMAIN jobStore THEN 404
    ELSE 200

---------------------------------------------------------------------------
(* Actions.                                                                *)

\* No call is made to the library on its own.
NoCrawl == [status |-> "idle"]
NoPageCall == [status |-> "idle"]
NoExtraction == [status |-> "idle"]
NoLookup == [status |-> "idle"]
NoClient == [status |-> "idle"]

NoDirectCall ==
    /\ crawl = NoCrawl
    /\ page = NoPageCall
    /\ extraction = NoExtraction
    /\ lookup = NoLookup
    /\ client = NoClient

Init ==
    /\ jobStore = <<>>
    /\ nextUuid = 1
    /\ expiryTimers = {}
    /\ streams = <<>>
    /\ leaked = {}
    /\ NoDirectCall

\* POST /api/initiate-scrape, routes.ts:150-176
SubmitJob(urls) ==
    IF SubmitReply(urls).status # 200
    THEN UNCHANGED vars
    ELSE /\ nextUuid <= MaxJobs
         /\ jobStore' = [j \in DOMAIN jobStore \cup {nextUuid} |->
                            IF j = nextUuid THEN urls ELSE jobStore[j]]
         /\ expiryTimers' = expiryTimers \cup {nextUuid}
         /\ nextUuid' = nextUuid + 1
         /\ UNCHANGED <<streams, leaked, direct>>

\* The cleanup timer of routes.ts:163-168 fires.
ExpireJob(jobId) ==
    /\ jobId \in expiryTimers
    /\ expiryTimers' = expiryTimers \ {jobId}
    /\ jobStore' = ExpireDelete(jobStore, jobId)
    /\ UNCHANGED <<nextUuid, streams, leaked, direct>>

\* GET /api/scrape-stream arrives, routes.ts:181-207: the lookup, and for a
\* job in the registry the headers and the loop up to its first await.
StreamJob(jobId) ==
    IF StreamReply(jobId) # 200
    THEN UNCHANGED vars
    ELSE /\ streams' = Append(streams,
                StartTarget([ jobId |-> jobId,
                              urls |-> jobStore[jobId],
                              i |-> 0,
                              events |-> <<>>,
                              settled |-> <<>>,
                              status |-> "streaming",
                              closed |-> FALSE,
                              call |-> NoCall ], 1))
         /\ UNCHANGED <<jobStore, nextUuid, expiryTimers, leaked, direct>>

\* The caller closes the event stream.  The handler registers no listener
\* for it, so nothing of the server's state changes but the socket.
ClientClose(s) ==
    /\ streams[s].status = "streaming"
    /\ ~streams[s].closed
    /\ streams' = [streams EXCEPT ![s].closed = TRUE]
    /\ UNCHANGED <<jobStore, nextUuid, expiryTimers, leaked, direct>>

Awaiting(s, point) ==
    /\ streams[s].call.active
    /\ streams[s].call.disc.await = point

\* axios.get of the awaited discovery settles, scraper.ts:165-208.
FetchDone(s, outcome) ==
    /\ Awaiting(s, "fetch")
    /\ outcome = "ok" => PageAt(streams[s].call.disc.cw.currentUrl).exists
    /\ streams[s].call.elapsed + FetchMs(outcome) <= timeoutMs
    /\ streams' = [streams EXCEPT
                      ![s].call.disc = DiscAfterFetch(@, outcome),
                      ![s].call.elapsed = @ + FetchMs(outcome)]
    /\ UNCHANGED <<jobStore, nextUuid, expiryTimers, leaked, direct>>

\* The delay of scraper.ts:211 is over.
CrawlDelayDone(s) ==
    /\ Awaiting(s, "crawlDelay")
    /\ streams[s].call.elapsed + DelayMs <= timeoutMs
    /\ streams' = [streams EXCEPT
                      ![s].call.disc = DiscAfterCrawlDelay(@),
                      ![s].call.elapsed = @ + DelayMs]
    /\ UNCHANGED <<jobStore, nextUuid, expiryTimers, leaked, direct>>

\* The delay of scraper.ts:97 is over; after the last path the discovery
\* returns, the processor resolves and the stream handler goes on.
ProbeDelayDone(s) ==
    /\ Awaiting(s, "probeDelay")
    /\ streams[s].call.elapsed + DelayMs <= timeoutMs
    /\ LET st == streams[s]
           stepped == [st EXCEPT !.call.disc = DiscAfterProbeDelay(@),
                                 !.call.elapsed = @ + DelayMs]
           after == IF stepped.call.disc.await = "done"
                    THEN AfterResult(stepped, "returned")
                    ELSE stepped
       IN  /\ streams' = [streams EXCEPT ![s] = after]
           /\ jobStore' = StoreAfter(after)
    /\ UNCHANGED <<nextUuid, expiryTimers, leaked, direct>>

\* The timer of routes.ts:37-43 fires before the discovery has returned:
\* the processor resolves empty and the discovery keeps running.
ProcessorTimeout(s) ==
    /\ streams[s].call.active
    /\ streams[s].call.elapsed + PendingMs(streams[s].call.disc) >= timeoutMs
    /\ LET st == streams[s]
           after == AfterResult(st, "timeout")
       IN  /\ streams' = [streams EXCEPT ![s] = after]
           /\ jobStore' = StoreAfter(after)
           /\ leaked' = leaked \cup
                  {[stream |-> s, target |-> st.i, disc |-> st.call.disc]}
    /\ UNCHANGED <<nextUuid, expiryTimers, direct>>

\* The flag of routes.ts:36, read for the call on one target of a stream:
\* set once that call has resolved (routes.ts:40, 60, 71).
isResolved(st, target) == Len(st.settled) >= target

LateCompletionUnguarded(st, target, disc, how) ==
    LET call == [processUrlWithTimeout(NormalizedProcessingUrl(st.urls[target]))
                     EXCEPT !.disc = disc]
    IN  [st EXCEPT !.events =
                       Append(@, ProgressEvent(Settle(call, how), target, st.urls))]

\* The discovery of a call returns (routes.ts:49-66) or throws
\* (routes.ts:67-77) after the timer has fired: the result is resolved
\* only if isResolved is not yet set.
LateCompletion(st, target, disc, how) ==
    IF isResolved(st, target)
    THEN st
    ELSE LET call == [processUrlWithTimeout(NormalizedProcessingUrl(st.urls[target]))
                          EXCEPT !.disc = disc]
         IN  [st EXCEPT !.events =
                            Append(@, ProgressEvent(Settle(call, how), target, st.urls))]

\* A discovery whose processor has already resolved takes its next step;
\* when it returns, routes.ts:58-59 finds isResolved set and does nothing.
LeakedStep(l, outcome) ==
    /\ l \in leaked
    /\ outcome = "ok" =>
           l.disc.await = "fetch" /\ PageAt(l.disc.cw.currentUrl).exists
    /\ outcome # "none" <=> l.disc.await = "fetch"
    /\ LET d == CASE l.disc.await = "fetch" -> DiscAfterFetch(l.disc, outcome)
                  [] l.disc.await = "crawlDelay" -> DiscAfterCrawlDelay(l.disc)
                  [] OTHER -> DiscAfterProbeDelay(l.disc)
       IN  IF d.await = "done"
           THEN /\ leaked' = leaked \ {l}
                /\ streams' = [streams EXCEPT
                                  ![l.stream] = LateCompletion(@, l.target, d, "returned")]
           ELSE /\ leaked' = (leaked \ {l}) \cup {[l EXCEPT !.disc = d]}
                /\ UNCHANGED streams
    /\ UNCHANGED <<jobStore, nextUuid, expiryTimers, direct>>

\* Something inside a discovery whose processor has already resolved
\* throws: scrapeEmails returns from its catch (scraper.ts:243-246) and
\* routes.ts:58-59 finds isResolved set.
LeakedThrows(l) ==
    /\ l \in leaked
    /\ leaked' = leaked \ {l}
    /\ streams' = [streams EXCEPT
                      ![l.stream] = LateCompletion(@, l.target, l.disc, "threw")]
    /\ UNCHANGED <<jobStore, nextUuid, expiryTimers, direct>>

\* Something inside the awaited scrapeEmails throws outside the handlers of
\* crawlWebsite: the catch of scraper.ts:243-246 returns, and the processor
\* goes on from routes.ts:49.
DiscoveryThrows(s) ==
    /\ streams[s].call.active
    /\ streams[s].call.elapsed <= timeoutMs
    /\ LET after == AfterResult(streams[s], "threw")
       IN  /\ streams' = [streams EXCEPT ![s] = after]
           /\ jobStore' = StoreAfter(after)
    /\ UNCHANGED <<nextUuid, expiryTimers, leaked, direct>>

Discovery ==
    \/ \E s \in DOMAIN streams, outcome \in FetchOutcomes : FetchDone(s, outcome)
    \/ \E s \in DOMAIN streams : CrawlDelayDone(s)
    \/ \E s \in DOMAIN streams : ProbeDelayDone(s)
    \/ \E s \in DOMAIN streams : ProcessorTimeout(s)
    \/ \E l \in leaked, outcome \in FetchOutcomes \cup {"none"} : LeakedStep(l, outcome)

---------------------------------------------------------------------------
(* crawlWebsite called on its own, on any site.  The page a request gets   *)
(* is chosen when the request settles.  Beside the crawler's own state cw  *)
(* the record keeps what the caller and the site observe: the URLs         *)
(* requested in order and how each request ended, the links the fetched    *)
(* pages showed while the budget allowed following them (as a set, and in  *)
(* the order of their anchors, page after page), and the emails the        *)
(* fetched pages held.                                                     *)

CrawlSeeds ==
    { <<"a.test">>, HttpsScheme \o <<"www.", "a.test">>, <<"a b">> }

CrawlBudgets == {ProbeMaxPages, DefaultMaxPages}

\* The anchors of a page: relative and absolute links, repeated links,
\* links back to the seed and to the page itself, to the www. host, to a
\* subdomain, to another site, and a mailto link.
LinkLists ==
    { <<>>,
      << <<"/about">>, <<"/about">> >>,
      << UrlA, <<"/about">> >>,
      << HttpsScheme \o <<"www.", "a.test", "/team">>, UrlB,
         HttpsScheme \o <<"blog.", "a.test">> >>,
      << <<"/about">>, HttpsScheme \o <<"www.", "a.test", "/team">>,
         <<"/contact">> >>,
      << <<"mailto:", "info@a.test">>, HttpsScheme \o <<"www.", "a.test">> >> }

CrawlTexts ==
    { <<>>,
      << Email("info@a.test") >>,
      << Email("ceo@a.test"), Email("info@a.test") >> }

CrawlPages == {Page(text, anchors) : text \in CrawlTexts, anchors \in LinkLists}

\* crawlWebsite(url, maxPages) up to its first await.
CrawlCall(url, maxPages) ==
    LET cw == CrawlStart(url, maxPages)
    IN  [ status |-> "fetch",
          seed |-> url,
          budget |-> maxPages,
          cw |-> cw,
          requested |-> <<cw.currentUrl>>,
          outcomes |-> <<>>,
          linked |-> {},
          shown |-> <<>>,
          extracted |-> {},
          result |-> <<>> ]

\* axios.get(currentUrl) settles, scraper.ts:165-208.
CrawlFetchSettles(outcome, html) ==
    /\ crawl.status = "fetch"
    /\ outcome = "ok" <=> html.exists
    /\ LET followed == outcome = "ok" /\ crawl.cw.pagesVisited < crawl.budget
           hrefs == {ResolveHref(html.anchors[k], crawl.cw.currentUrl) :
                        k \in DOMAIN html.anchors} \ {<<>>}
       IN  crawl' = [crawl EXCEPT
                        !.cw = CrawlAfterPage(@, outcome, html),
                        !.status = "delay",
                        !.outcomes = Append(@, outcome),
                        !.linked = IF followed THEN @ \cup hrefs ELSE @,
                        !.shown = IF followed
                                  THEN @ \o SelectSeq(
                                           [k \in DOMAIN html.anchors |->
                                               ResolveHref(html.anchors[k],
                                                           crawl.cw.currentUrl)],
                                           LAMBDA h : h # <<>>)
                                  ELSE @,
                        !.extracted = IF outcome = "ok"
                                      THEN @ \cup Range(extractEmailsFromHTML(html))
                                      ELSE @]
    /\ UNCHANGED <<server, page, extraction, lookup, client>>

\* The delay of scraper.ts:211 is over: the loop requests the next URL, or
\* crawlWebsite returns at line 214.
CrawlDelayOver ==
    /\ crawl.status = "delay"
    /\ LET cw == CrawlLoop(crawl.cw)
       IN  crawl' = IF cw.running
                    THEN [crawl EXCEPT !.cw = cw,
                                       !.status = "fetch",
                                       !.requested = Append(@, cw.currentUrl)]
                    ELSE [crawl EXCEPT !.cw = cw,
                                       !.status = "returned",
                                       !.result = cw.foundEmails]
    /\ UNCHANGED <<server, page, extraction, lookup, client>>

---------------------------------------------------------------------------
(* The scrapeEmails of part_009 called on its own.                         *)

PageUrls == { <<"a.test">>, UrlA, HttpScheme \o <<"a.test">> }

\* scrapeEmails(url) up to its await: the normalised URL is requested.
PageCall(url) ==
    [ status |-> "fetch",
      url |-> url,
      requested |-> normalizeUrl(url),
      outcome |-> Rejected("", FALSE, 0, "", 0),
      fetchResult |-> fetchPageContent(Rejected("", FALSE, 0, "", 0)),
      email |-> Null,
      result |-> <<>> ]

\* axios.get settles: fetchPageContent returns and scrapeEmails goes on to
\* its return.  email is the local of line 321, null when it is not reached.
PageFetchSettles(outcome) ==
    /\ page.status = "fetch"
    /\ LET fetchResult == fetchPageContent(outcome)
       IN  page' = [page EXCEPT
                       !.status = "returned",
                       !.outcome = outcome,
                       !.fetchResult = fetchResult,
                       !.email = IF ReachesExtraction(fetchResult)
                                 THEN extractFirstEmailSimple(fetchResult.html[1])
                                 ELSE Null,
                       !.result = scrapeEmailsAfterFetch(fetchResult)]
    /\ UNCHANGED <<server, crawl, extraction, lookup, client>>

---------------------------------------------------------------------------
(* extractEmailsFromHTML called on its own.                                *)

MaxElements == 2

\* A passage of a page: an element, the emails its author wrote into its
\* visible text, and whether it is free of "[at]" forms and mailto links.
\* encoded holds the addresses written as "local [at] domain.tld" in its
\* text, mailto the address of its mailto: href.
Passage(el, emails, plain) ==
    [ el |-> el, emails |-> emails, plain |-> plain,
      encoded |-> <<>>, mailto |-> <<>> ]
EncodedPassage(el, encoded) ==
    [ el |-> el, emails |-> <<>>, plain |-> FALSE,
      encoded |-> encoded, mailto |-> <<>> ]
MailtoPassage(el, mailto) ==
    [ el |-> el, emails |-> <<>>, plain |-> FALSE,
      encoded |-> <<>>, mailto |-> mailto ]

MailAB == << "a", "@", "b", ".", "c", "c" >>
MailCB == << "c", "@", "b", ".", "c", "c" >>
MailUB == << "u", "@", "b", ".", "c", "c" >>
MailVD == << "v", "@", "d", ".", "e", "e" >>
MailMB == << "m", "@", "b", ".", "c", "c" >>

Passages ==
    { Passage(Element("p", MailAB, <<>>), <<MailAB>>, TRUE),
      Passage(Element("p", MailCB, <<>>), <<MailCB>>, TRUE),
      Passage(Element("p", << "M", "a", "i", "l", " ", "c", "@", "b", ".", "c", "c", " ", "o", "r", " ", "a", "@", "b", ".", "c", "c", "." >>, <<>>),
              <<MailCB, MailAB>>, TRUE),
      Passage(Element("p", << " ", "H", "i", " " >>, <<>>), <<>>, TRUE),
      Passage(Element("script", << "j", "@", "s", ".", "c", "c" >>, <<>>), <<>>, TRUE),
      Passage(Element("style", << "x", "@", "y", ".", "z", "z" >>, <<>>), <<>>, TRUE),
      EncodedPassage(Element("p", << "u", " ", "[", "a", "t", "]", " ", "b", ".", "c", "c" >>, <<>>), <<MailUB>>),
      EncodedPassage(Element("p", << "u", "[", "a", "t", "]", "b", ".", "c", "c" >>, <<>>), <<MailUB>>),
      EncodedPassage(Element("p", << "T", "o", ":", " ", "u", " ", " ", "[", "a", "t", "]", "\n", "	", "b", ".", "c", "c", "." >>, <<>>),
                     <<MailUB>>),
      EncodedPassage(Element("p", << "u", " ", "[", "a", "t", "]", "b", ".", "c", "c", ",", " ", "v", "[", "a", "t", "]", " ", "d", ".", "e", "e", " " >>, <<>>),
                     <<MailUB, MailVD>>),
      MailtoPassage(Element("a", << "M", "a", "i", "l" >>, << "m", "a", "i", "l", "t", "o", ":", "m", "@", "b", ".", "c", "c", "?", "s", "u", "b", "j", "e", "c", "t", "=", "x" >>),
                    <<MailMB>>),
      MailtoPassage(Element("a", << "M", "a", "i", "l" >>, << "m", "a", "i", "l", "t", "o", ":", "m", "@", "b", ".", "c", "c" >>),
                    <<MailMB>>),
      MailtoPassage(Element("a", << "u", "s" >>, << "m", "a", "i", "l", "t", "o", ":", "u", "@", "b", ".", "c", "c", "?", "c", "c", "=", "v", "@", "d", ".", "e", "e" >>),
                    <<MailUB>>) }

Documents == UNION {[1..n -> Passages] : n \in 0..MaxElements}

ExtractionCall(passages) ==
    [ status |-> "called", passages |-> passages, emails |-> <<>> ]

\* The text of the elements of a document that body.text() keeps.
RECURSIVE VisibleTexts(_)
VisibleTexts(passages) ==
    IF passages = <<>> THEN <<>>
    ELSE (IF passages[1].el.tag \in {"script", "style"} THEN <<>>
          ELSE IF passages[1].el.text = <<>> THEN <<>>
          ELSE <<passages[1].el.text>>)
         \o VisibleTexts(Drop(passages, 1))

\* Whether no word runs on from one element of the document into the next.
SetApart(passages) ==
    LET texts == VisibleTexts(passages)
        WordChars == LocalChars \cup DomainChars \cup { "@", "[", "]" }
    IN  \A k \in 1..(Len(texts) - 1) :
            \/ texts[k][Len(texts[k])] \notin WordChars
            \/ texts[k + 1][1] \notin WordChars

\* extractEmailsFromHTML(html) returns.
ExtractionReturns ==
    /\ extraction.status = "called"
    /\ extraction' = [extraction EXCEPT
           !.status = "returned",
           !.emails = extractEmailsFromMarkup(
                          [k \in DOMAIN extraction.passages |->
                              extraction.passages[k].el])]
    /\ UNCHANGED <<server, crawl, page, lookup, client>>

---------------------------------------------------------------------------
(* POST /api/website-lookup, routes.ts:94-143, called on its own.          *)

MaxQueries == 2
MinQueryLength == 3

QueryAcme == << "a", "c", "m", "e" >>
QueryBolt == << "B", "o", "l", "t" >>
QueryShort == << "a", "b" >>

QueryLists ==
    UNION {[1..n -> {QueryAcme, QueryBolt, QueryShort}] : n \in 0..MaxQueries}

\* websiteLookupInputSchema.safeParse
ValidQueries(queries) ==
    /\ Len(queries) >= 1
    /\ \A i \in DOMAIN queries : Len(queries[i]) >= MinQueryLength

PageNone == <<>>
\* A social-media link before the site's own.
PageSocial ==
    << Link("result__a", << "h", "t", "t", "p", "s", ":", "/", "/", "f", "a", "c", "e", "b", "o", "o", "k", ".", "c", "o", "m", "/", "a", "c", "m", "e" >>,
            Null,
            << "F", "B" >>),
       Link("result__a", << "h", "t", "t", "p", "s", ":", "/", "/", "w", "w", "w", ".", "a", "c", "m", "e", ".", "c", "o", "m" >>,
            Null,
            << "A", "c", "m", "e", " ", "O", "f", "f", "i", "c", "i", "a", "l" >>) >>
\* Two candidates, the second with the query in its domain.
PageDomainSecond ==
    << Link("result__a", << "h", "t", "t", "p", "s", ":", "/", "/", "o", "t", "h", "e", "r", ".", "o", "r", "g" >>,
            Null,
            << "O", "t", "h", "e", "r" >>),
       Link("result__a", << "h", "t", "t", "p", "s", ":", "/", "/", "a", "c", "m", "e", ".", "c", "o", "m", "/", "a", "b", "o", "u", "t" >>,
            Null,
            << "H", "o", "m", "e" >>) >>
\* The same two candidates in the other order.
PageDomainFirst ==
    << Link("result__a", << "h", "t", "t", "p", "s", ":", "/", "/", "a", "c", "m", "e", ".", "c", "o", "m", "/", "a", "b", "o", "u", "t" >>,
            Null,
            << "H", "o", "m", "e" >>),
       Link("result__a", << "h", "t", "t", "p", "s", ":", "/", "/", "o", "t", "h", "e", "r", ".", "o", "r", "g" >>,
            Null,
            << "O", "t", "h", "e", "r" >>) >>
\* A candidate with the query in its text before one with the query in
\* its domain, which also holds a generic term.
PageTextFirst ==
    << Link("result__a", << "h", "t", "t", "p", "s", ":", "/", "/", "s", "h", "o", "p", ".", "o", "r", "g" >>,
            Null,
            << "A", "c", "m", "e", " ", "s", "t", "o", "r", "e" >>),
       Link("result__url", << "h", "t", "t", "p", "s", ":", "/", "/", "m", "y", "-", "a", "c", "m", "e", "-", "s", "e", "r", "v", "i", "c", "e", ".", "c", "o", "m" >>,
            Null,
            << "H", "o", "m", "e" >>) >>
\* Redirect links, a relative link and an anchor of another class.
PageRedirect ==
    << Link("result__a", << "/", "l", "/", "?", "k", "h", "=", "-", "1", "&", "u", "d", "d", "g", "=" >>,
            Some(Uddg(TRUE, << "h", "t", "t", "p", "s", ":", "/", "/", "w", "w", "w", ".", "B", "o", "l", "t", ".", "i", "o", "/", "p", "a", "g", "e", "?", "x", "=", "1" >>)),
            << "B", "o", "l", "t" >>),
       Link("result__url", << "/", "a", "b", "o", "u", "t" >>,
            Null,
            << "A", "b", "o", "u", "t" >>),
       Link("result__a", << "/", "/", "d", "u", "c", "k", "d", "u", "c", "k", "g", "o", ".", "c", "o", "m", "/", "l", "/", "?", "u", "d", "d", "g", "=" >>,
            Some(Uddg(FALSE, <<>>)),
            << "B", "r", "o", "k", "e", "n" >>),
       Link("result__a", << "h", "t", "t", "p", "s", ":", "/", "/", "d", "u", "c", "k", "d", "u", "c", "k", "g", "o", ".", "c", "o", "m", "/", "l", "/", "?", "x", "=", "1" >>,
            Null,
            << "N", "o", " ", "t", "a", "r", "g", "e", "t" >>),
       Link("nav", << "h", "t", "t", "p", "s", ":", "/", "/", "o", "t", "h", "e", "r", ".", "o", "r", "g" >>,
            Null,
            << "O", "t", "h", "e", "r" >>) >>
\* A link to a file, and a link without a scheme.
PageFile ==
    << Link("result__a", << "h", "t", "t", "p", "s", ":", "/", "/", "a", "c", "m", "e", ".", "c", "o", "m", "/", "b", "r", "o", "c", "h", "u", "r", "e", ".", "p", "d", "f" >>,
            Null,
            << "A", "c", "m", "e", " ", "b", "r", "o", "c", "h", "u", "r", "e" >>),
       Link("result__a", << "b", "o", "l", "t", ".", "i", "o" >>,
            Null,
            << "B", "o", "l", "t" >>) >>
\* Five relative links before the first external one.
PageMany ==
    << Link("result__a", << "/", "a" >>,
            Null,
            << "A" >>),
       Link("result__a", << "/", "b" >>,
            Null,
            << "B" >>),
       Link("result__a", << "/", "c" >>,
            Null,
            << "C" >>),
       Link("result__a", << "/", "d" >>,
            Null,
            << "D" >>),
       Link("result__a", << "/", "e" >>,
            Null,
            << "E" >>),
       Link("result__a", << "h", "t", "t", "p", "s", ":", "/", "/", "a", "c", "m", "e", ".", "c", "o", "m" >>,
            Null,
            << "A", "c", "m", "e" >>) >>
\* Hrefs that new URL rejects.
PageInvalid ==
    << Link("result__a", << "h", "t", "t", "p", "s", ":", "/", "/", "a", "c", " ", "m", "e", ".", "c", "o", "m" >>,
            Null,
            << "A", "c", "m", "e" >>),
       Link("result__a", << "h", "t", "t", "p", "a", "c", "m", "e", ".", "c", "o", "m" >>,
            Null,
            << "A", "c", "m", "e" >>) >>
\* Three candidates.
PageBolt ==
    << Link("result__a", << "h", "t", "t", "p", "s", ":", "/", "/", "o", "t", "h", "e", "r", ".", "o", "r", "g" >>,
            Null,
            << "O", "t", "h", "e", "r" >>),
       Link("result__a", << "/", "/", "w", "w", "w", ".", "b", "o", "l", "t", ".", "i", "o" >>,
            Null,
            << "B", "o", "l", "t" >>),
       Link("result__a", << "h", "t", "t", "p", "s", ":", "/", "/", "a", "c", "m", "e", ".", "c", "o", "m" >>,
            Null,
            << "A", "c", "m", "e" >>) >>

\* Four links the loop discards, each for another reason, a fifth it keeps,
\* and a sixth with the query in its domain and in its text.
PageSixth ==
    << Link("result__a", << "h", "t", "t", "p", "s", ":", "/", "/", "w", "w", "w", ".", "f", "a", "c", "e", "b", "o", "o", "k", ".", "c", "o", "m", "/", "a", "c", "m", "e" >>,
            Null,
            << "A", "c", "m", "e" >>),
       Link("result__a", << "/", "l", "/", "?", "u", "d", "d", "g", "=", "%" >>,
            Some(Uddg(FALSE, <<>>)),
            << "A", "c", "m", "e" >>),
       Link("result__url", << "/", "a", "c", "m", "e" >>,
            Null,
            << "A", "c", "m", "e" >>),
       Link("result__a", << "h", "t", "t", "p", "s", ":", "/", "/", "a", "c", " ", "m", "e", ".", "c", "o", "m" >>,
            Null,
            << "A", "c", "m", "e" >>),
       Link("result__a", << "h", "t", "t", "p", "s", ":", "/", "/", "o", "t", "h", "e", "r", ".", "o", "r", "g" >>,
            Null,
            << "O", "t", "h", "e", "r" >>),
       Link("result__a", << "h", "t", "t", "p", "s", ":", "/", "/", "a", "c", "m", "e", ".", "c", "o", "m" >>,
            Null,
            << "A", "c", "m", "e" >>) >>

\* A link to a denylisted host and a link to a file, and nothing else.
PageUnwanted ==
    << Link("result__a", << "h", "t", "t", "p", "s", ":", "/", "/", "w", "w", "w", ".", "y", "o", "u", "t", "u", "b", "e", ".", "c", "o", "m", "/", "a", "c", "m", "e" >>,
            Null,
            << "A", "c", "m", "e" >>),
       Link("result__url", << "h", "t", "t", "p", "s", ":", "/", "/", "a", "c", "m", "e", ".", "c", "o", "m", "/", "a", ".", "m", "p", "4", "?", "t", "=", "1" >>,
            Null,
            << "A", "c", "m", "e", " ", "f", "i", "l", "m" >>) >>

ResultPages ==
    { PageNone, PageSocial, PageDomainSecond, PageDomainFirst, PageTextFirst,
      PageRedirect, PageFile, PageMany, PageInvalid, PageBolt, PageSixth,
      PageUnwanted }

\* How fetch(searchUrl) settles, and how response.text() does.
FetchRejected(message) == [resolved |-> FALSE, status |-> 0, message |-> message]
FetchResponse(status) == [resolved |-> TRUE, status |-> status, message |-> ""]
SearchOutcomes ==
    { FetchRejected("Network failure"), FetchRejected(""),
      FetchResponse(200), FetchResponse(404), FetchResponse(500) }

TextRead(html) == [read |-> TRUE, html |-> html, message |-> ""]
TextFailed(message) == [read |-> FALSE, html |-> <<>>, message |-> message]
TextOutcomes ==
    {TextRead(html) : html \in ResultPages} \cup {TextFailed("terminated")}

\* response.ok
ResponseOk(status) == status \in 200..299

\* The messages of the errors thrown inside the try of routes.ts:108-132.
StatusError(status, query) ==
    [ text |-> "Search engine request failed with status", status |-> status,
      query |-> query ]
TransportError(message) ==
    [ text |-> IF message = "" THEN "Unknown error during lookup." ELSE message,
      status |-> 0, query |-> <<>> ]

\* What the model remembers of a query's fetch: whether it failed, and the
\* page it read.
Settled(failed, html) == [failed |-> failed, html |-> html]

\* routes.ts:137 with an error set whenever no website was found.
LookupResultErrorWhenAbsent(query, foundWebsite, errorMsg) ==
    [ originalInput |-> query, foundWebsite |-> foundWebsite,
      error |-> IF foundWebsite = Null /\ errorMsg = Null
                THEN Some(TransportError(""))
                ELSE errorMsg ]

\* routes.ts:137
LookupResult(query, foundWebsite, errorMsg) ==
    [ originalInput |-> query, foundWebsite |-> foundWebsite, error |-> errorMsg ]

\* The handler up to its first await: the 400 of a rejected body, or the
\* fetch for the first query.
websiteLookup(queries) ==
    [ status |-> IF ValidQueries(queries) THEN "fetch" ELSE "responded",
      http |-> IF ValidQueries(queries) THEN 0 ELSE 400,
      queries |-> queries,
      i |-> 1,
      response |-> 0,
      results |-> <<>>,
      settled |-> <<>> ]

\* The end of a turn of the loop in which an error ends the request.
LookupPushAbortOnError(lk, result, how) ==
    IF result.error # Null
    THEN [lk EXCEPT !.status = "responded", !.http = 500,
                    !.settled = Append(@, how)]
    ELSE LET pushed == [lk EXCEPT !.results = Append(@, result),
                                  !.settled = Append(@, how),
                                  !.response = 0]
         IN  IF lk.i = Len(lk.queries)
             THEN [pushed EXCEPT !.status = "responded", !.http = 200]
             ELSE [pushed EXCEPT !.status = "fetch", !.i = @ + 1]

\* The end of a turn of the loop of routes.ts:104-138: the result is pushed
\* and the next query is fetched, or the results are sent with status 200.
LookupPush(lk, result, how) ==
    LET pushed == [lk EXCEPT !.results = Append(@, result),
                             !.settled = Append(@, how),
                             !.response = 0]
    IN  IF lk.i = Len(lk.queries)
        THEN [pushed EXCEPT !.status = "responded", !.http = 200]
        ELSE [pushed EXCEPT !.status = "fetch", !.i = @ + 1]

\* fetch(searchUrl) settles.
LookupFetchSettles(outcome) ==
    /\ lookup.status = "fetch"
    /\ lookup' =
         IF outcome.resolved
         THEN [lookup EXCEPT !.status = "text", !.response = outcome.status]
         ELSE LookupPush(lookup,
                         LookupResult(lookup.queries[lookup.i], Null,
                                      Some(TransportError(outcome.message))),
                         Settled(TRUE, Null))
    /\ UNCHANGED <<server, crawl, page, extraction, client>>

\* response.text() settles: for a response that is not ok the text is only
\* logged and the error of line 124 is thrown; else the page is searched.
LookupTextSettles(body) ==
    /\ lookup.status = "text"
    /\ LET query == lookup.queries[lookup.i]
       IN  lookup' =
             IF ~ResponseOk(lookup.response)
             THEN LookupPush(lookup,
                             LookupResult(query, Null,
                                          Some(StatusError(lookup.response, query))),
                             Settled(TRUE, Null))
             ELSE IF ~body.read
             THEN LookupPush(lookup,
                             LookupResult(query, Null,
                                          Some(TransportError(body.message))),
                             Settled(TRUE, Null))
             ELSE LookupPush(lookup,
                             LookupResult(query,
                                          extractDomainFromHtml(body.html, query),
                                          Null),
                             Settled(FALSE, Some(body.html)))
    /\ UNCHANGED <<server, crawl, page, extraction, client>>

---------------------------------------------------------------------------
(* The queued SSE client, InputSection of part_005, from the opening of    *)
(* the EventSource on.  A message is the eventData of a progress event,    *)
(* of which the client uses processedCount and totalCount besides the      *)
(* result; a result is named by the processedCount of its message.  Time   *)
(* matters only after the done event: sinceDone is the time since it, in   *)
(* ms.  A turn of the queue (the 0 ms timer of line 87 and the re-render   *)
(* that follows the three state updates) takes FastStepMs or SlowStepMs.   *)

MaxListed == 5
ClearDelayMs == 500
FastStepMs == 4
SlowStepMs == 200
StepCosts == {FastStepMs, SlowStepMs}

\* handleSubmit, lines 91-132, for a list of total URLs: the state once the
\* EventSource is set up.
handleSubmit(total) ==
    [ status |-> "open",
      total |-> total,
      received |-> 0,
      messageQueue |-> <<>>,
      currentResults |-> <<>>,
      processingStatus |-> [isProcessing |-> TRUE, current |-> 0, total |-> total],
      sseStreamSuccessfullyCompleted |-> FALSE,
      sinceDone |-> 0 ]

\* es.onmessage, lines 139-146: the server sends the progress events of the
\* job, the k-th with processedCount k, before its done event.
OnMessage ==
    /\ client.status = "open"
    /\ client.received < client.total
    /\ client' = [client EXCEPT
           !.received = @ + 1,
           !.messageQueue = Append(@, [ processedCount |-> client.received + 1,
                                        totalCount |-> client.total ])]
    /\ UNCHANGED <<server, crawl, page, extraction, lookup>>

\* processMessage, lines 56-85, run by the timer of line 87: a turn that
\* would end at or after the clearing timer's time runs after it.
processMessage(cost) ==
    /\ client.status \in {"open", "draining"}
    /\ client.messageQueue # <<>>
    /\ client.status = "draining" => client.sinceDone + cost < ClearDelayMs
    /\ LET eventData == client.messageQueue[1]
       IN  client' = [client EXCEPT
               !.processingStatus =
                   [ isProcessing |-> ~client.sseStreamSuccessfullyCompleted,
                     current |-> eventData.processedCount,
                     total |-> eventData.totalCount ],
               !.currentResults = Append(@, eventData.processedCount),
               !.messageQueue = Drop(@, 1),
               !.sinceDone = IF client.status = "draining" THEN @ + cost ELSE @]
    /\ UNCHANGED <<server, crawl, page, extraction, lookup>>

\* The done listener, lines 148-177, up to the setTimeout.
OnDone ==
    /\ client.status = "open"
    /\ client.received = client.total
    /\ client' = [client EXCEPT
           !.status = "draining",
           !.sseStreamSuccessfullyCompleted = TRUE,
           !.processingStatus = [ isProcessing |-> FALSE,
                                  current |-> client.total,
                                  total |-> client.total ]]
    /\ UNCHANGED <<server, crawl, page, extraction, lookup>>

\* The callback of lines 173-176, ClearDelayMs after the done event: it runs
\* once the queue is empty or its next turn would end too late.
ClearQueue ==
    /\ client.status = "draining"
    /\ \/ client.messageQueue = <<>>
       \/ \E cost \in StepCosts : client.sinceDone + cost >= ClearDelayMs
    /\ client' = [client EXCEPT !.status = "closed",
                                !.messageQueue = <<>>,
                                !.sinceDone = ClearDelayMs]
    /\ UNCHANGED <<server, crawl, page, extraction, lookup>>

---------------------------------------------------------------------------
(* Specifications.                                                         *)

\* The server from its start: jobs are submitted, streamed by one caller at
\* a time, and expire.
Next ==
    \/ \E urls \in TargetLists : SubmitJob(urls)
    \/ \E jobId \in expiryTimers : ExpireJob(jobId)
    \/ \E jobId \in RequestIds : Len(streams) < MaxStreams /\ StreamJob(jobId)
    \/ Discovery

Spec == Init /\ [][Next]_vars

\* The registry once a first job with the target list urls was accepted.
Submitted(urls) ==
    /\ jobStore = [j \in {1} |-> urls]
    /\ nextUuid = 2
    /\ expiryTimers = {1}
    /\ streams = <<>>
    /\ leaked = {}
    /\ NoDirectCall

ValidLists(n) == {urls \in TargetLists : ValidUrlList(urls) /\ Len(urls) <= n}

\* One job of one target, requested by up to MaxCallers callers.
InitRace == \E urls \in ValidLists(1) : Submitted(urls)

NextRace ==
    \/ \E jobId \in RequestIds : Len(streams) < MaxCallers /\ StreamJob(jobId)
    \/ Discovery

SpecRace == InitRace /\ [][NextRace]_vars

\* One job, streamed by a caller who may close the channel at any time.
InitClose == \E urls \in ValidLists(MaxTargets) : Submitted(urls)

NextClose ==
    \/ \E jobId \in RequestIds : Len(streams) < MaxStreams /\ StreamJob(jobId)
    \/ \E s \in DOMAIN streams : ClientClose(s)
    \/ Discovery

SpecClose == InitClose /\ [][NextClose]_vars

\* One Site Processor call on a site of the modelled web: the state after
\* a one-target job was submitted and its stream requested.
SiteTargets ==
    { <<"a.test">>, <<"www.", "a.test">>, UrlA, <<"b.test">>, <<"a b">> }

InitSite ==
    \E t \in SiteTargets :
        /\ jobStore = [j \in {1} |-> <<t>>]
        /\ nextUuid = 2
        /\ expiryTimers = {1}
        /\ streams = << StartTarget([ jobId |-> 1,
                                      urls |-> <<t>>,
                                      i |-> 0,
                                      events |-> <<>>,
                                      settled |-> <<>>,
                                      status |-> "streaming",
                                      closed |-> FALSE,
                                      call |-> NoCall ], 1) >>
        /\ leaked = {}
        /\ NoDirectCall

SpecSite == InitSite /\ [][Discovery]_vars

\* The same call, with an exception raised inside scrapeEmails.
NextFault ==
    \/ Discovery
    \/ \E s \in DOMAIN streams : DiscoveryThrows(s)
    \/ \E l \in leaked : LeakedThrows(l)

SpecFault == InitSite /\ [][NextFault]_vars

\* One job of up to MaxTargets targets and its stream, with discoveries
\* that may throw.
NextContain ==
    \/ \E jobId \in RequestIds : Len(streams) < MaxStreams /\ StreamJob(jobId)
    \/ Discovery
    \/ \E s \in DOMAIN streams : DiscoveryThrows(s)
    \/ \E l \in leaked : LeakedThrows(l)

SpecContain == InitClose /\ [][NextContain]_vars

\* One job and its stream, with the expiry timer of the job firing at any
\* time.
NextExpiry ==
    \/ \E jobId \in RequestIds : Len(streams) < MaxStreams /\ StreamJob(jobId)
    \/ \E jobId \in expiryTimers : ExpireJob(jobId)
    \/ Discovery

SpecExpiry == InitClose /\ [][NextExpiry]_vars

\* Up to MaxJobs jobs of one target each, submitted at any time and each
\* streamed by its own caller, at most once.
NextPair ==
    \/ \E urls \in ValidLists(1) \cup {<<>>} : SubmitJob(urls)
    \/ \E jobId \in expiryTimers : ExpireJob(jobId)
    \/ \E jobId \in RequestIds :
           /\ Len(streams) < MaxCallers
           /\ \A s \in DOMAIN streams : streams[s].jobId # jobId
           /\ StreamJob(jobId)
    \/ Discovery

SpecPair == Init /\ [][NextPair]_vars

\* One crawlWebsite invocation, for each seed and page budget.
InitCrawl ==
    /\ jobStore = <<>>
    /\ nextUuid = 1
    /\ expiryTimers = {}
    /\ streams = <<>>
    /\ leaked = {}
    /\ \E url \in CrawlSeeds, maxPages \in CrawlBudgets :
           crawl = CrawlCall(url, maxPages)
    /\ page = NoPageCall
    /\ extraction = NoExtraction
    /\ lookup = NoLookup
    /\ client = NoClient

NextCrawl ==
    \/ \E outcome \in FetchOutcomes, html \in CrawlPages \cup {NoPage} :
           CrawlFetchSettles(outcome, html)
    \/ CrawlDelayOver

SpecCrawl == InitCrawl /\ [][NextCrawl]_vars

\* The same invocation when every request settles (axios gives up after
\* the 5 s of scraper.ts:169) and every delay timer fires.
SpecCrawlFair == SpecCrawl /\ WF_vars(NextCrawl)

\* One call of part_009's scrapeEmails, for each URL and request outcome.
InitPage ==
    /\ jobStore = <<>>
    /\ nextUuid = 1
    /\ expiryTimers = {}
    /\ streams = <<>>
    /\ leaked = {}
    /\ crawl = NoCrawl
    /\ \E url \in PageUrls : page = PageCall(url)
    /\ extraction = NoExtraction
    /\ lookup = NoLookup
    /\ client = NoClient

NextPage == \E outcome \in AxiosOutcomes : PageFetchSettles(outcome)

SpecPage == InitPage /\ [][NextPage]_vars

\* One call of extractEmailsFromHTML, for each document.
InitExtraction ==
    /\ jobStore = <<>>
    /\ nextUuid = 1
    /\ expiryTimers = {}
    /\ streams = <<>>
    /\ leaked = {}
    /\ crawl = NoCrawl
    /\ page = NoPageCall
    /\ \E passages \in Documents : extraction = ExtractionCall(passages)
    /\ lookup = NoLookup
    /\ client = NoClient

SpecExtraction == InitExtraction /\ [][ExtractionReturns]_vars

\* One request to /api/website-lookup, for each list of queries.
InitLookup ==
    /\ jobStore = <<>>
    /\ nextUuid = 1
    /\ expiryTimers = {}
    /\ streams = <<>>
    /\ leaked = {}
    /\ crawl = NoCrawl
    /\ page = NoPageCall
    /\ extraction = NoExtraction
    /\ \E queries \in QueryLists : lookup = websiteLookup(queries)
    /\ client = NoClient

NextLookup ==
    \/ \E outcome \in SearchOutcomes : LookupFetchSettles(outcome)
    \/ \E body \in TextOutcomes : LookupTextSettles(body)

SpecLookup == InitLookup /\ [][NextLookup]_vars

\* One run of the client, for each number of listed URLs.
InitClient ==
    /\ jobStore = <<>>
    /\ nextUuid = 1
    /\ expiryTimers = {}
    /\ streams = <<>>
    /\ leaked = {}
    /\ crawl = NoCrawl
    /\ page = NoPageCall
    /\ extraction = NoExtraction
    /\ lookup = NoLookup
    /\ \E total \in 1..MaxListed : client = handleSubmit(total)

NextClient ==
    \/ OnMessage
    \/ \E cost \in StepCosts : processMessage(cost)
    \/ OnDone
    \/ ClearQueue

SpecClient == InitClient /\ [][NextClient]_vars

---------------------------------------------------------------------------
(* Properties.                                                             *)

Progress(st) == {k \in DOMAIN st.events : st.events[k].type = "progress"}

NoDuplicates(seq) ==
    \A a, b \in DOMAIN seq : a # b => seq[a] # seq[b]

\* C1: a stream of a job with N >= 1 targets writes N progress events in
\* target-list order, the i-th with processedCount = i, totalCount = N and
\* currentWebsite = the i-th target as submitted, then exactly one done
\* event and nothing after it; event i is written only once target i has
\* settled, so never before event i-1.
C1_ProgressInOrderThenDone ==
    \A s \in DOMAIN streams :
        LET st == streams[s]
            N == Len(st.urls)
        IN  /\ N >= 1
            /\ st.jobId \in DOMAIN jobStore => jobStore[st.jobId] = st.urls
            /\ Len(st.events) <= N + 1
            /\ \A k \in DOMAIN st.events :
                   IF k <= N
                   THEN /\ st.events[k].type = "progress"
                        /\ st.events[k].processedCount = k
                        /\ st.events[k].totalCount = N
                        /\ st.events[k].currentWebsite = st.urls[k]
                   ELSE st.events[k] = DoneEvent
            /\ st.status = "ended" <=> Len(st.events) = N + 1
            /\ st.status = "streaming" => Len(st.events) = st.i - 1

C1_Witness ==
    \E s \in DOMAIN streams :
        /\ streams[s].status = "ended"
        /\ Len(streams[s].urls) = 2
        /\ streams[s].urls[1] # streams[s].urls[2]
        /\ Len(streams[s].events) = 3

\* C2: once a stream that passed the lookup has ended, its job is absent
\* from the registry and a StreamJob for it is answered 404, whether or not
\* a target of the job failed.
C2_EndedJobIsGone ==
    \A s \in DOMAIN streams :
        streams[s].status = "ended" =>
            /\ streams[s].jobId \notin DOMAIN jobStore
            /\ StreamReply(streams[s].jobId) = 404

C2_Witness ==
    \E s \in DOMAIN streams :
        /\ streams[s].status = "ended"
        /\ \E k \in DOMAIN streams[s].settled :
               streams[s].settled[k].how = "timeout"
        /\ StreamReply(streams[s].jobId) = 404

\* C3: at most one StreamJob call per job passes the lookup, also when a
\* second call arrives while the first is still streaming.
C3_ConsumedOnce ==
    \A s1, s2 \in DOMAIN streams :
        s1 # s2 => streams[s1].jobId # streams[s2].jobId

\* C4: once the caller has closed the channel, no Site Processor call is
\* started for a later target of the stream.
C4_CloseStopsProcessing ==
    [][ \A s \in DOMAIN streams :
            streams[s].closed => streams'[s].i = streams[s].i ]_vars

\* C5: discovery work is never active for two different targets of one
\* job: no discovery of an earlier target is still running while the
\* stream has a call in progress for a later one.
C5_OneTargetAtATime ==
    \A l \in leaked :
        ~ ( /\ streams[l.stream].call.active
            /\ streams[l.stream].i # l.target )

\* C6: a StreamJob for an id never issued, or for a job whose expiry fired
\* before any stream, is answered 404; a stream is only ever opened for a
\* job the registry holds, so such a request writes no event and changes
\* nothing; and when the expiry timer of a job fires, the job is gone.
C6_UnknownOrExpiredNotFound ==
    [][ LET NotFoundAt(j) ==
                (j >= nextUuid \/ j \notin expiryTimers) =>
                    (j \notin DOMAIN jobStore /\ StreamReply(j) = 404)
        IN  /\ \A j \in 1..UnknownId : NotFoundAt(j) /\ NotFoundAt(j)'
            /\ Len(streams') > Len(streams) =>
                   streams'[Len(streams')].jobId \in DOMAIN jobStore
            /\ \A j \in expiryTimers \ expiryTimers' : j \notin DOMAIN jobStore'
      ]_vars

C6_Witness ==
    \E j \in 1..(nextUuid - 1) :
        /\ j \notin expiryTimers
        /\ \A s \in DOMAIN streams : streams[s].jobId # j
        /\ StreamReply(j) = 404

\* C7: SubmitJob of the empty list is answered 400 with no job id, and
\* every job the registry or a stream ever holds has at least one target.
C7_EmptyListRejected ==
    /\ \A urls \in TargetLists :
           Len(urls) = 0 => SubmitReply(urls) = [status |-> 400, jobId |-> MissingId]
    /\ \A j \in DOMAIN jobStore : Len(jobStore[j]) >= 1
    /\ \A s \in DOMAIN streams : Len(streams[s].urls) >= 1

C7_Witness ==
    /\ SubmitReply(<<>>).status = 400
    /\ \E j \in DOMAIN jobStore : Len(jobStore[j]) = MaxTargets

\* C8: the emails of every progress event number at most 15, however many
\* the discovery found.
C8_AtMostFifteen ==
    \A s \in DOMAIN streams : \A k \in Progress(streams[s]) :
        Len(streams[s].events[k].emails) <= MaxEmails

C8_Witness ==
    \E s \in DOMAIN streams : \E k \in Progress(streams[s]) :
        /\ streams[s].settled[k].discovered > MaxEmails
        /\ Len(streams[s].events[k].emails) = MaxEmails

\* C9: the emails of every progress event hold no address twice (exact,
\* case-sensitive comparison), also when pages and the probe repeat one.
C9_NoDuplicateEmails ==
    \A s \in DOMAIN streams : \A k \in Progress(streams[s]) :
        NoDuplicates(streams[s].events[k].emails)

C9_Witness ==
    \E s \in DOMAIN streams : \E k \in Progress(streams[s]) :
        {"info@a.test", "Info@a.test", "ceo@a.test", "contact@a.test"}
            \subseteq Range(streams[s].events[k].emails)

\* C10: every Site Processor call resolves with a SiteResult (its promise
\* never rejects, so no event carries an error), whose website is the one
\* the call derived; when the discovery threw, its emails are empty.
C10_AlwaysResolves ==
    \A s \in DOMAIN streams : \A k \in Progress(streams[s]) :
        /\ streams[s].events[k].error = NoError
        /\ streams[s].events[k].website = streams[s].settled[k].website
        /\ streams[s].settled[k].how = "threw" =>
               streams[s].events[k].emails = <<>>

C10_Witness ==
    \E s \in DOMAIN streams : \E k \in Progress(streams[s]) :
        /\ streams[s].settled[k].how = "threw"
        /\ streams[s].settled[k].discovered > 0
        /\ streams[s].events[k].emails = <<>>

\* C11: a call whose discovery has not returned when the 15 s timer fires
\* resolves then, with the derived website, no emails (whatever the crawl
\* had found) and no error; no call resolves later than 15 s after it began.
C11_TimeoutResolvesEmpty ==
    \A s \in DOMAIN streams : \A k \in Progress(streams[s]) :
        /\ streams[s].settled[k].at <= timeoutMs
        /\ streams[s].settled[k].how = "timeout" =>
               /\ streams[s].settled[k].at = timeoutMs
               /\ streams[s].events[k].website = streams[s].settled[k].website
               /\ streams[s].events[k].emails = <<>>
               /\ streams[s].events[k].error = NoError

C11_Witness ==
    \E s \in DOMAIN streams : \E k \in Progress(streams[s]) :
        /\ streams[s].settled[k].how = "timeout"
        /\ streams[s].settled[k].discovered > 0
        /\ streams[s].events[k].emails = <<>>

\* The www-stripped host of a URL; <<>> when the URL does not parse.
HostOf(url) == StripWww(ParseURL(normalizeUrl(url)).hostname)

\* C12: within one crawlWebsite invocation no URL is requested twice.
C12_NoUrlRequestedTwice ==
    crawl.status # "idle" => NoDuplicates(crawl.requested)

C12_Witness ==
    /\ crawl.status = "returned"
    /\ Len(crawl.requested) = DefaultMaxPages
    /\ \A k \in DOMAIN crawl.requested : crawl.requested[k] \in crawl.linked

\* C13: every URL a crawlWebsite invocation requests has the www-stripped
\* host of the seed, and no link to another host is ever in the frontier.
C13_OnlySeedHost ==
    crawl.status # "idle" =>
        /\ \A k \in DOMAIN crawl.requested :
               HostOf(crawl.requested[k]) = HostOf(crawl.seed)
        /\ \A k \in DOMAIN crawl.cw.urlsToVisit :
               HostOf(crawl.cw.urlsToVisit[k]) = HostOf(crawl.seed)

C13_Witness ==
    /\ crawl.status = "returned"
    /\ UrlB \in crawl.linked
    /\ HttpsScheme \o <<"www.", "a.test", "/team">> \in Range(crawl.requested)
    /\ UrlA \in Range(crawl.requested)

\* C14: a link that a fetched page shows, while the budget allows links to
\* be followed, to a subdomain of the seed's host is enqueued (it is in the
\* frontier, or was taken from it and requested).
C14_SubdomainLinksEnqueued ==
    crawl.status # "idle" =>
        \A href \in crawl.linked :
            LET u == ParseURL(href)
            IN  (u.ok /\ Len(u.hostname) = 2
                      /\ Drop(u.hostname, 1) = HostOf(crawl.seed))
                => href \in Range(crawl.cw.urlsToVisit) \cup crawl.cw.visitedUrls

\* C15: a crawlWebsite invocation with page budget B issues at most B
\* requests, the failed ones counted.
C15_AtMostBudgetFetches ==
    crawl.status # "idle" =>
        /\ Len(crawl.requested) <= crawl.budget
        /\ Len(crawl.requested) = crawl.cw.pagesVisited

C15_Witness ==
    /\ crawl.status = "returned"
    /\ crawl.budget = DefaultMaxPages
    /\ Len(crawl.requested) = DefaultMaxPages
    /\ crawl.cw.urlsToVisit # <<>>
    /\ \E k \in DOMAIN crawl.outcomes : crawl.outcomes[k] # "ok"

\* C16: a failed request does not abort the crawl: the emails of every
\* page fetched are kept and returned, and the crawl returns only once
\* the budget is spent or every followable link of the seed's host that
\* a fetched page showed has been requested.
C16_FailureDoesNotAbort ==
    crawl.status # "idle" =>
        /\ Range(crawl.cw.foundEmails) = crawl.extracted
        /\ crawl.status = "returned" =>
               /\ Range(crawl.result) = crawl.extracted
               /\ Len(crawl.requested) < crawl.budget =>
                      \A href \in crawl.linked :
                          HostOf(href) = HostOf(crawl.seed) =>
                              href \in Range(crawl.requested)

C16_Witness ==
    /\ crawl.status = "returned"
    /\ Len(crawl.requested) = DefaultMaxPages
    /\ crawl.outcomes[1] = "ok"
    /\ crawl.outcomes[2] \in {"error", "timeout"}
    /\ crawl.outcomes[3] = "ok"
    /\ crawl.result # <<>>

C18_SinglePageAtMostOne ==
    page.status = "returned" =>
        LET o == page.outcome
            matches == MatchEmailRegex(o.data, 1)
            none == \/ ~o.resolved
                    \/ o.ms > SlowMs
                    \/ o.status # OkStatus
                    \/ o.data = <<>>
                    \/ matches = <<>>
        IN  /\ Len(page.result) <= 1
            /\ page.result = IF none THEN <<>> ELSE <<matches[1]>>
            /\ page.requested =
                   IF StartsWith(page.url, HttpScheme) \/ StartsWith(page.url, HttpsScheme)
                   THEN page.url
                   ELSE HttpsScheme \o page.url

C18_Witness ==
    /\ page.status = "returned"
    /\ page.url = <<"a.test">>
    /\ page.outcome.data = BodyTwoEmails
    /\ page.result = << << "c", "@", "d", ".", "e", "e" >> >>

\* C19: extractFirstEmailSimple returns "info@localhost" for the content
\* "info@localhost".
C19_LocalhostAddressReturned ==
    ( /\ page.status = "returned"
      /\ ReachesExtraction(page.fetchResult)
      /\ page.fetchResult.html = Some(BodyLocalhost) )
    => page.email = Some(BodyLocalhost)

\* C20: for a document without "[at]" forms and mailto links,
\* extractEmailsFromHTML returns the emails written in its visible text,
\* each once, in the order of their first occurrence.
C20_ExactlyTheVisibleEmails ==
    ( /\ extraction.status = "returned"
      /\ \A k \in DOMAIN extraction.passages : extraction.passages[k].plain )
    => LET RECURSIVE Written(_)
           Written(ps) == IF ps = <<>> THEN <<>>
                          ELSE ps[1].emails \o Written(Drop(ps, 1))
       IN  extraction.emails = Dedupe(Written(extraction.passages))

C22_MailtoAddressExtracted ==
    extraction.status = "returned" =>
        /\ \A k \in DOMAIN extraction.passages :
               Range(extraction.passages[k].mailto) \subseteq Range(extraction.emails)
        /\ \A n \in DOMAIN extraction.emails :
               /\ "?" \notin Range(extraction.emails[n])
               /\ ~StartsWith(extraction.emails[n], MailtoPrefix)

C22_Witness ==
    /\ extraction.status = "returned"
    /\ Len(extraction.passages) = 2
    /\ extraction.passages[1].el.href = << "m", "a", "i", "l", "t", "o", ":", "u", "@", "b", ".", "c", "c", "?", "c", "c", "=", "v", "@", "d", ".", "e", "e" >>
    /\ extraction.passages[2].el.href = << "m", "a", "i", "l", "t", "o", ":", "m", "@", "b", ".", "c", "c", "?", "s", "u", "b", "j", "e", "c", "t", "=", "x" >>
    /\ extraction.emails = <<MailUB, MailMB>>

\* The candidates of the page read for query i that have the query text,
\* in lower case, in their domain.
DomainMatches(i) ==
    LET cands == potentialDomains(lookup.settled[i].html[1])
    IN  {k \in DOMAIN cands : Includes(cands[k].domain, Lower(lookup.queries[i]))}

\* C23: when the results page of a query leaves two candidates and exactly
\* one of them has the query text in its domain, the resolver returns that
\* candidate's domain, whichever of the two comes first on the page.
C23_DomainMatchSelected ==
    \A i \in DOMAIN lookup.results :
        ( /\ ~lookup.settled[i].failed
          /\ Len(potentialDomains(lookup.settled[i].html[1])) = 2
          /\ Cardinality(DomainMatches(i)) = 1 )
        => LET cands == potentialDomains(lookup.settled[i].html[1])
               k == CHOOSE k \in DomainMatches(i) : TRUE
           IN  lookup.results[i].foundWebsite = Some(cands[k].domain)

\* C24: a valid list of K queries is answered with status 200 and K
\* results, the i-th for the i-th query; a query whose fetch fails gets a
\* result like any other, and every result is what its own query's fetch
\* alone determines.
C24_OneResultPerQuery ==
    /\ lookup.status \in {"fetch", "text"} =>
           /\ Len(lookup.results) = lookup.i - 1
           /\ lookup.http = 0
    /\ (lookup.status = "responded" /\ ValidQueries(lookup.queries)) =>
           /\ lookup.http = 200
           /\ Len(lookup.results) = Len(lookup.queries)
    /\ \A i \in DOMAIN lookup.results :
           /\ lookup.results[i].originalInput = lookup.queries[i]
           /\ lookup.results[i].foundWebsite =
                  IF lookup.settled[i].failed THEN Null
                  ELSE extractDomainFromHtml(lookup.settled[i].html[1],
                                             lookup.queries[i])

C24_Witness ==
    /\ lookup.status = "responded"
    /\ Len(lookup.results) = MaxQueries
    /\ lookup.settled[1].failed
    /\ ~lookup.settled[2].failed
    /\ lookup.results[2].foundWebsite = Some(<< "a", "c", "m", "e", ".", "c", "o", "m" >>)

\* C25: a result has an error exactly when its search fetch failed, and
\* then no website; a fetch that succeeded with a page that leaves no
\* candidate gives a result with neither a website nor an error.
C25_ErrorOnlyOnFetchFailure ==
    \A i \in DOMAIN lookup.results :
        LET r == lookup.results[i]
            how == lookup.settled[i]
        IN  /\ (r.error # Null) <=> how.failed
            /\ how.failed => r.foundWebsite = Null
            /\ (~how.failed /\ potentialDomains(how.html[1]) = <<>>) =>
                   r.foundWebsite = Null /\ r.error = Null

C25_Witness ==
    /\ lookup.status = "responded"
    /\ Len(lookup.results) = MaxQueries
    /\ lookup.results[1].error = Some(StatusError(500, QueryBolt))
    /\ lookup.settled[2].html = Some(PageMany)
    /\ lookup.results[2].foundWebsite = Null
    /\ lookup.results[2].error = Null

\* C26: a target whose processing fails (its discovery throws, or the
\* processor times out) still gets its progress event, with no emails; the
\* loop then goes on to the next target, and a stream ends only with one
\* progress event per target and the done event.  The event written when
\* the awaited processor call rejects has no emails and an error message.
C26_FailureContained ==
    \A s \in DOMAIN streams :
        LET st == streams[s]
            N == Len(st.urls)
        IN  /\ \A k \in DOMAIN st.settled :
                   /\ k <= Len(st.events)
                   /\ st.events[k].type = "progress"
                   /\ st.events[k].processedCount = k
                   /\ st.settled[k].how \in {"timeout", "threw"} =>
                          st.events[k].emails = <<>>
            /\ st.status = "streaming" =>
                   /\ st.call.active
                   /\ st.i = Len(st.settled) + 1
                   /\ st.i <= N
            /\ st.status = "ended" =>
                   /\ Len(st.settled) = N
                   /\ Len(st.events) = N + 1
                   /\ st.events[N + 1] = DoneEvent
            /\ \A i \in DOMAIN st.urls :
                   LET e == ProgressEvent([ rejected |-> TRUE,
                                            result |-> [website |-> <<>>,
                                                        emails |-> <<>>] ],
                                          i, st.urls)
                   IN  /\ e.emails = <<>>
                       /\ e.error # NoError
                       /\ e.processedCount = i
                       /\ e.website = st.urls[i]

C26_Witness ==
    \E s \in DOMAIN streams :
        /\ streams[s].status = "ended"
        /\ Len(streams[s].urls) = 2
        /\ streams[s].settled[1].how = "threw"
        /\ streams[s].settled[2].how = "returned"
        /\ streams[s].events[1].emails = <<>>
        /\ streams[s].events[2].emails # <<>>
        /\ streams[s].events[3] = DoneEvent

\* C27: jobs are independent.  A step changes at most one stream; each
\* stream writes the events of the targets its own job was submitted with,
\* in order; the registry entry of a job is never altered, it is added only
\* by the submit that issues its id and removed only by its own expiry
\* timer or by the end of its own stream.
C27_JobsIndependent ==
    [][ /\ \A s1, s2 \in DOMAIN streams :
               (s1 # s2 /\ streams'[s1] # streams[s1]) => streams'[s2] = streams[s2]
        /\ \A s \in DOMAIN streams :
               /\ streams'[s].jobId = streams[s].jobId
               /\ streams'[s].urls = streams[s].urls
               /\ Len(streams'[s].events) >= Len(streams[s].events)
               /\ SubSeq(streams'[s].events, 1, Len(streams[s].events))
                      = streams[s].events
               /\ \A k \in Progress(streams'[s]) :
                      /\ streams'[s].events[k].processedCount = k
                      /\ streams'[s].events[k].currentWebsite = streams[s].urls[k]
                      /\ streams'[s].events[k].website = streams'[s].settled[k].website
               /\ streams'[s].status = "ended" =>
                      Len(streams'[s].events) = Len(streams[s].urls) + 1
        /\ Len(streams') > Len(streams) =>
               streams'[Len(streams')].urls = jobStore[streams'[Len(streams')].jobId]
        /\ \A j \in 1..MaxJobs :
               /\ (j \in DOMAIN jobStore /\ j \in DOMAIN jobStore') =>
                      jobStore'[j] = jobStore[j]
               /\ (j \notin DOMAIN jobStore /\ j \in DOMAIN jobStore') =>
                      j = nextUuid /\ nextUuid' = j + 1
               /\ (j \in DOMAIN jobStore /\ j \notin DOMAIN jobStore') =>
                      \/ j \in expiryTimers \ expiryTimers'
                      \/ \E s \in DOMAIN streams :
                             /\ streams[s].jobId = j
                             /\ streams[s].status = "streaming"
                             /\ streams'[s].status = "ended"
      ]_vars

C27_Witness ==
    /\ Len(streams) = 2
    /\ streams[1].jobId # streams[2].jobId
    /\ streams[1].urls # streams[2].urls
    /\ streams[1].status = "streaming"
    /\ streams[1].call.elapsed > 0
    /\ streams[2].status = "ended"
    /\ streams[2].events[1].emails # <<>>
    /\ streams[1].jobId \in DOMAIN jobStore
    /\ streams[2].jobId \notin DOMAIN jobStore

\* C28: the crawler requests URLs in the order they were enqueued: the
\* seed, then the links of the seed's host in the order the fetched pages
\* showed them, each at its first showing; a link of a later page is never
\* requested before an unrequested link of an earlier page.
C28_BreadthFirstOrder ==
    crawl.status # "idle" =>
        LET inScope == SelectSeq(crawl.shown,
                                 LAMBDA h : HostOf(h) = HostOf(crawl.seed))
            order == Dedupe(<<normalizeUrl(crawl.seed)>> \o inScope)
        IN  /\ Len(crawl.requested) <= Len(order)
            /\ crawl.requested = SubSeq(order, 1, Len(crawl.requested))

C28_Witness ==
    /\ crawl.status = "returned"
    /\ crawl.requested = << UrlA, UrlA \o <<"/about">>,
                            HttpsScheme \o <<"www.", "a.test", "/team">> >>
    /\ crawl.shown = << UrlA \o <<"/about">>,
                        HttpsScheme \o <<"www.", "a.test", "/team">>,
                        UrlA \o <<"/contact">>,
                        HttpsScheme \o <<"www.", "a.test">> >>


\* The discoveries that are running: those a stream awaits and those whose
\* processor has already resolved.
RunningDiscoveries ==
    {streams[s].call.disc : s \in {t \in DOMAIN streams : streams[t].call.active}}
        \cup {l.disc : l \in leaked}

RECURSIVE PathEmails(_, _, _)
\* What the first n probed paths serve, in list order: the emails of the
\* page at each requested URL that answered, nothing for one that failed.
PathEmails(probed, probeOk, n) ==
    IF n = 0 THEN <<>>
    ELSE PathEmails(probed, probeOk, n - 1) \o
             (IF n \in probeOk THEN extractEmailsFromHTML(PageAt(probed[n]))
              ELSE <<>>)

\* The stream s writes the event of a call whose discovery returned.
Returns(s) ==
    /\ s \in DOMAIN streams /\ s \in DOMAIN streams'
    /\ Len(streams'[s].settled) = Len(streams[s].settled) + 1
    /\ streams'[s].settled[Len(streams'[s].settled)].how = "returned"

\* C29: the Path Prober requests https://{domain}{path} once for each path
\* of the fixed list, in list order, whatever the earlier requests answered,
\* and holds the emails the answered paths served; it returns only after all
\* eight paths were requested, and what the call then reports is drawn from
\* the seed crawl's emails and the duplicate-free union of the paths' emails.
C29_EveryPathProbedInOrder ==
    [][ /\ \A d \in RunningDiscoveries :
            /\ Len(d.probed) = (IF d.phase = "probe" THEN d.pathIdx ELSE 0)
            /\ \A k \in DOMAIN d.probed :
                   d.probed[k] = HttpsScheme \o d.domain \o <<commonPaths[k]>>
            /\ d.await = "probeDelay" =>
                   d.emails = PathEmails(d.probed, d.probeOk, d.pathIdx)
        /\ \A s \in DOMAIN streams : Returns(s) =>
            LET d == streams[s].call.disc
                union == Dedupe(PathEmails(d.probed, d.probeOk, Len(commonPaths)))
                new == streams'[s].settled[Len(streams'[s].settled)]
            IN  /\ Len(d.probed) = Len(commonPaths)
                /\ d.await = "probeDelay"
                /\ new.discovered = Cardinality(Range(d.crawlResults) \cup Range(union))
                /\ Range(streams'[s].events[Len(streams[s].events) + 1].emails)
                       \subseteq Range(d.crawlResults) \cup Range(union)
      ]_vars

C29_Witness ==
    \E d \in RunningDiscoveries :
        /\ d.phase = "probe" /\ d.await = "probeDelay"
        /\ d.pathIdx = Len(commonPaths)
        /\ d.probeOk = {2, 3}
        /\ "contact@a.test" \notin Range(d.emails)
        /\ {"u1@a.test", "ceo@a.test", "CEO@a.test"} \subseteq Range(d.emails)

\* C30: a call whose discovery returned before the timeout reports the first
\* 15 entries of the seed crawl's emails followed by the probe's emails,
\* each kept at its first occurrence only.
C30_FirstFifteenInInsertionOrder ==
    [][ \A s \in DOMAIN streams : Returns(s) =>
            LET d == streams[s].call.disc
                searchResults == Dedupe(d.emails)
                merged == Dedupe(d.crawlResults \o searchResults)
                emails == streams'[s].events[Len(streams[s].events) + 1].emails
            IN  /\ emails = Slice(merged, MaxEmails)
                /\ \A i \in DOMAIN emails : emails[i] = merged[i]
      ]_vars

C30_Witness ==
    \E s \in DOMAIN streams : \E k \in Progress(streams[s]) :
        LET emails == streams[s].events[k].emails
        IN  /\ streams[s].settled[k].how = "returned"
            /\ streams[s].settled[k].discovered > MaxEmails
            /\ Len(emails) = MaxEmails
            /\ \E i, j, l \in DOMAIN emails :
                   /\ i < j /\ j < l
                   /\ emails[i] = "info@a.test"
                   /\ emails[j] = "contact@a.test"
                   /\ emails[l] = "u1@a.test"

\* The points a candidate gets for a query: 3 when its domain contains the
\* query, 2 when its link text does, 1 when its domain starts with it, less
\* 1 when the domain holds a generic term that the query does not.
Points(c, query) ==
    LET q == Lower(query)
        generic(s) == \E g \in GenericTerms : Includes(Lower(s), g)
        domainHas == IF Includes(c.domain, q) THEN 3 ELSE 0
        textHas == IF Includes(Lower(c.text), q) THEN 2 ELSE 0
        starts == IF StartsWith(c.domain, q) THEN 1 ELSE 0
        penalty == IF generic(c.domain) /\ ~generic(q) THEN 1 ELSE 0
    IN  domainHas + textHas + starts - penalty

\* The candidates of the page read for the i-th query.
PageCandidates(i) == potentialDomains(lookup.settled[i].html[1])

\* C31: the resolver returns the domain of a candidate whose points are the
\* maximum over the page's candidates, and of those with the maximum the
\* one that comes first on the page.
C31_MaximumScoreFirstOnTies ==
    \A i \in DOMAIN lookup.results :
        (~lookup.settled[i].failed /\ PageCandidates(i) # <<>>) =>
            \E k \in DOMAIN PageCandidates(i) :
                /\ lookup.results[i].foundWebsite = Some(PageCandidates(i)[k].domain)
                /\ \A j \in DOMAIN PageCandidates(i) :
                       /\ Points(PageCandidates(i)[j], lookup.queries[i])
                              <= Points(PageCandidates(i)[k], lookup.queries[i])
                       /\ j < k =>
                              Points(PageCandidates(i)[j], lookup.queries[i])
                                  < Points(PageCandidates(i)[k], lookup.queries[i])

C31_Witness ==
    /\ lookup.status = "responded"
    /\ Len(lookup.results) = MaxQueries
    /\ lookup.queries = << QueryAcme, QueryAcme >>
    /\ lookup.settled[1] = Settled(FALSE, Some(PageTextFirst))
    /\ Points(PageCandidates(1)[1], QueryAcme) = Points(PageCandidates(1)[2], QueryAcme)
    /\ lookup.results[1].foundWebsite = Some(PageCandidates(1)[1].domain)
    /\ lookup.settled[2] = Settled(FALSE, Some(PageDomainSecond))
    /\ lookup.results[2].foundWebsite = Some(PageCandidates(2)[2].domain)

\* The anchors of the organic-result classes on the page read for the i-th
\* query, in page order.
Organic(i) ==
    SelectSeq(lookup.settled[i].html[1],
              LAMBDA l : l.class \in {"result__a", "result__url"})

\* C32: the website found for a query is the domain of one of the first five
\* organic anchors of its page, discarded ones counted: when the loop keeps
\* none of those five, no website is found, whatever follows them.
C32_OnlyFirstFiveLinks ==
    \A i \in DOMAIN lookup.results :
        ~lookup.settled[i].failed =>
            LET firstFive == {k \in DOMAIN Organic(i) : k <= 5}
                kept == {k \in firstFive : LinkCandidate(Organic(i)[k]) # <<>>}
            IN  /\ kept = {} => lookup.results[i].foundWebsite = Null
                /\ lookup.results[i].foundWebsite # Null =>
                       \E k \in kept :
                           lookup.results[i].foundWebsite =
                               Some(LinkCandidate(Organic(i)[k])[1].domain)

C32_Witness ==
    /\ lookup.status = "responded"
    /\ Len(lookup.results) = MaxQueries
    /\ lookup.queries = << QueryAcme, QueryAcme >>
    /\ lookup.settled[1] = Settled(FALSE, Some(PageMany))
    /\ Len(Organic(1)) = 6
    /\ LinkCandidate(Organic(1)[6]) # <<>>
    /\ lookup.results[1].foundWebsite = Null
    /\ lookup.settled[2] = Settled(FALSE, Some(PageSixth))
    /\ Points(LinkCandidate(Organic(2)[6])[1], QueryAcme)
           > Points(LinkCandidate(Organic(2)[5])[1], QueryAcme)
    /\ lookup.results[2].foundWebsite = Some(LinkCandidate(Organic(2)[5])[1].domain)

\* Where an organic anchor leads: the href, or what its uddg parameter
\* decodes to, read as a URL.
Destination(link) ==
    LET viaRedirect == link.uddg # Null /\ link.uddg[1].decodable
        target == IF viaRedirect THEN link.uddg[1].value ELSE link.href
        absolute == IF StartsWith(target, << "h", "t", "t", "p" >>) THEN target
                    ELSE IF StartsWith(target, << "/", "/" >>)
                    THEN << "h", "t", "t", "p", "s", ":" >> \o target
                    ELSE << "h", "t", "t", "p", "s", ":", "/", "/" >> \o target
    IN  ParseRawUrl(absolute)

\* The host of a destination without a leading www.
BareHost(url) ==
    IF StartsWith(url.hostname, << "w", "w", "w", "." >>)
    THEN Drop(url.hostname, 4) ELSE url.hostname

\* The anchor leads to a denylisted host or to a file of a listed extension.
Unwanted(link) ==
    /\ Destination(link).ok
    /\ \/ BareHost(Destination(link)) \in commonNonMainDomains
       \/ \E ext \in fileExtensions : EndsWith(Destination(link).pathname, ext)

\* The first five organic anchors of the page read for the i-th query.
FirstFive(i) == {k \in DOMAIN Organic(i) : k <= 5}

\* The points an anchor would get as a candidate.
LinkPoints(link, query) ==
    Points([domain |-> BareHost(Destination(link)), text |-> link.text], query)

\* An unwanted anchor of the page has more points than every other anchor
\* that leads somewhere.
UnwantedScoresHighest(i) ==
    \E k \in FirstFive(i) :
        /\ Unwanted(Organic(i)[k])
        /\ \A j \in FirstFive(i) \ {k} :
               (Destination(Organic(i)[j]).ok /\ ~Unwanted(Organic(i)[j])) =>
                   LinkPoints(Organic(i)[j], lookup.queries[i])
                       < LinkPoints(Organic(i)[k], lookup.queries[i])

\* The website found for the i-th query is never a denylisted host and
\* comes from an anchor that is not unwanted.
NeverUnwanted(i) ==
    lookup.results[i].foundWebsite # Null =>
        /\ lookup.results[i].foundWebsite[1] \notin commonNonMainDomains
        /\ \E k \in FirstFive(i) :
               /\ ~Unwanted(Organic(i)[k])
               /\ Destination(Organic(i)[k]).ok
               /\ lookup.results[i].foundWebsite =
                      Some(BareHost(Destination(Organic(i)[k])))

\* C33 as stated: the resolver never returns a denylisted host nor a link
\* to a listed file type, and returns no website when such a link is the
\* only one or the highest-scoring one.
C33_UnwantedBestMeansNone ==
    \A i \in DOMAIN lookup.results :
        ~lookup.settled[i].failed =>
            /\ NeverUnwanted(i)
            /\ (\A k \in FirstFive(i) : Unwanted(Organic(i)[k])) =>
                   lookup.results[i].foundWebsite = Null
            /\ UnwantedScoresHighest(i) => lookup.results[i].foundWebsite = Null

\* C33, amended: the resolver never returns a denylisted host nor a link to
\* a listed file type; it returns no website when such links are the only
\* ones, and when such a link is the highest-scoring one it returns the
\* best of the candidates that remain, if any.
C33_UnwantedNeverReturned ==
    \A i \in DOMAIN lookup.results :
        ~lookup.settled[i].failed =>
            /\ NeverUnwanted(i)
            /\ (\A k \in FirstFive(i) : Unwanted(Organic(i)[k])) =>
                   lookup.results[i].foundWebsite = Null
            /\ (\E k \in FirstFive(i) : LinkCandidate(Organic(i)[k]) # <<>>) =>
                   /\ lookup.results[i].foundWebsite # Null
                   /\ \A k \in FirstFive(i) :
                          LinkCandidate(Organic(i)[k]) # <<>> =>
                              \E j \in FirstFive(i) :
                                  /\ lookup.results[i].foundWebsite =
                                         Some(BareHost(Destination(Organic(i)[j])))
                                  /\ ~Unwanted(Organic(i)[j])
                                  /\ LinkPoints(Organic(i)[k], lookup.queries[i])
                                         <= LinkPoints(Organic(i)[j], lookup.queries[i])

C33_Witness ==
    /\ lookup.status = "responded"
    /\ Len(lookup.results) = MaxQueries
    /\ lookup.queries = << QueryAcme, QueryAcme >>
    /\ lookup.settled[1] = Settled(FALSE, Some(PageUnwanted))
    /\ \A k \in FirstFive(1) : Unwanted(Organic(1)[k])
    /\ lookup.results[1].foundWebsite = Null
    /\ lookup.settled[2] = Settled(FALSE, Some(PageFile))
    /\ UnwantedScoresHighest(2)
    /\ lookup.results[2].foundWebsite = Some(<< "b", "o", "l", "t", ".", "i", "o" >>)

\* C34: the website of a progress event is the hostname of the normalized
\* target, and the target as the caller supplied it when the normalized
\* target does not parse as a URL.
C34_WebsiteHostnameOrRawInput ==
    \A s \in DOMAIN streams : \A k \in Progress(streams[s]) :
        LET target == streams[s].urls[k]
            parsed == ParseURL(normalizeUrl(target))
        IN  streams[s].events[k].website =
                IF parsed.ok THEN parsed.hostname ELSE target

\* The target names no scheme.
SchemeLess(t) == ~StartsWith(t, HttpScheme) /\ ~StartsWith(t, HttpsScheme)

\* C35: a list of targets without a scheme is accepted, a target beginning
\* with the letters http included; every target reaches the discovery as
\* https:// followed by the target when it has no scheme and unchanged when
\* it has one, and normalizing what was normalized changes nothing.
C35_SchemelessAcceptedAndPrefixed ==
    /\ \A urls \in TargetLists :
           (Len(urls) >= 1 /\ \A i \in DOMAIN urls : SchemeLess(urls[i])) =>
               SubmitReply(urls).status = 200
    /\ \A s \in DOMAIN streams :
           streams[s].call.active =>
               LET t == streams[s].urls[streams[s].i]
               IN  /\ streams[s].call.url =
                          IF SchemeLess(t) THEN HttpsScheme \o t ELSE t
                   /\ normalizeUrl(streams[s].call.url) = streams[s].call.url
                   /\ NormalizedProcessingUrl(streams[s].call.url) = streams[s].call.url

\* C36: the results are the received messages, each once and in arrival
\* order, as far as the queue has been worked off; when the client has
\* closed the stream every message received is among them and the status
\* is current = total, not processing.
C36_NoQueuedMessageLost ==
    /\ client.status # "idle" =>
           /\ Len(client.currentResults) <= client.received
           /\ \A k \in DOMAIN client.currentResults : client.currentResults[k] = k
    /\ client.status = "closed" =>
           /\ Len(client.currentResults) = client.received
           /\ client.processingStatus =
                  [ isProcessing |-> FALSE,
                    current |-> client.total,
                    total |-> client.total ]


\* The progress events a stream has written so far are kept as written.
EventsKept(s) ==
    /\ Len(streams'[s].events) >= Len(streams[s].events)
    /\ \A k \in 1..Len(streams[s].events) :
           streams'[s].events[k] = streams[s].events[k]

\* The k-th event of a stream is the one progress event of its k-th target.
OneEventPerTarget(st) ==
    /\ Len(st.settled) <= Len(st.urls)
    /\ \A k \in 1..Len(st.events) :
           st.events[k].type = "progress" =>
               /\ k <= Len(st.settled)
               /\ st.events[k].processedCount = k
               /\ st.settled[k].how = "timeout" => st.events[k].emails = <<>>

\* C37: the result of a Site Processor call is decided once, by the timeout
\* or by the completion of the discovery, whichever is first: every target
\* of a stream has one progress event, counted by its position, which is
\* never rewritten, and a step of a discovery whose timeout has already won
\* (its return or its failure included) changes no stream and no job.
C37_DecidedOnceByTheFirst ==
    [][ /\ \A s \in DOMAIN streams : EventsKept(s) /\ OneEventPerTarget(streams'[s])
        /\ (\E l \in leaked : l \notin leaked') =>
               /\ streams' = streams
               /\ jobStore' = jobStore ]_vars

\* A two-target stream whose first call timed out and whose discovery has
\* since completed, while the second call is still running.
C37_Witness ==
    \E s \in DOMAIN streams :
        /\ Len(streams[s].settled) = 1
        /\ streams[s].settled[1].how = "timeout"
        /\ streams[s].call.active
        /\ streams[s].i = 2
        /\ \A l \in leaked : ~(l.stream = s /\ l.target = 1)
        /\ Len(streams[s].events) = 1


\* All the events of a finished stream: one progress event per target of
\* the list read at the lookup, in order, then the done event.
Complete(st) ==
    /\ st.status = "ended"
    /\ Len(st.events) = Len(st.urls) + 1
    /\ \A k \in 1..Len(st.urls) :
           /\ st.events[k].type = "progress"
           /\ st.events[k].processedCount = k
           /\ st.events[k].totalCount = Len(st.urls)
           /\ st.events[k].currentWebsite = st.urls[k]
    /\ st.events[Len(st.urls) + 1] = DoneEvent

\* A stream that has not ended is inside the call on its i-th target, with
\* the events of the targets before it written.
Underway(st) ==
    /\ st.status = "streaming"
    /\ st.call.active
    /\ st.i \in 1..Len(st.urls)
    /\ Len(st.events) = st.i - 1

\* C38: a stream that has passed the lookup goes on whether or not the
\* expiry timer removes the job meanwhile: it is inside a call until it has
\* ended, and it ends with its N progress events and the done event.  A
\* firing of the expiry timer changes no stream, and one that finds the
\* job already deleted changes no job either.
C38_StreamOutlivesRegistryEntry ==
    [][ /\ \A s \in DOMAIN streams' :
               Underway(streams'[s]) \/ Complete(streams'[s])
        /\ \A s \in DOMAIN streams :
               /\ s \in DOMAIN streams'
               /\ streams'[s].urls = streams[s].urls
               /\ Len(streams'[s].events) >= Len(streams[s].events)
        /\ expiryTimers' # expiryTimers =>
               /\ streams' = streams
               /\ leaked' = leaked
               /\ \A j \in expiryTimers \ expiryTimers' :
                      j \notin DOMAIN jobStore => jobStore' = jobStore ]_vars

\* A stream in the middle of its list whose job the expiry timer has
\* removed from the registry.
C38_Witness ==
    \E s \in DOMAIN streams :
        /\ streams[s].status = "streaming"
        /\ Len(streams[s].events) >= 1
        /\ streams[s].i < Len(streams[s].urls) + 1
        /\ streams[s].jobId \notin DOMAIN jobStore
        /\ streams[s].jobId \notin expiryTimers


\* C39: every crawlWebsite invocation returns, whatever the pages link to
\* and however the fetches settle; when it returns the frontier is empty
\* or the page budget is used up, and the emails of the pages fetched so
\* far are the result.
C39_CrawlTerminates ==
    /\ <>(crawl.status = "returned")
    /\ [](crawl.status = "returned" =>
              /\ \/ crawl.cw.urlsToVisit = <<>>
                 \/ crawl.cw.pagesVisited = crawl.budget
              /\ Range(crawl.result) = crawl.extracted)

\* A crawl that has returned emails after a failed fetch and after a page
\* that linked back to a URL already requested.
C39_Witness ==
    /\ crawl.status = "returned"
    /\ crawl.result # <<>>
    /\ \E k \in DOMAIN crawl.outcomes : crawl.outcomes[k] # "ok"
    /\ \E k \in DOMAIN crawl.shown : crawl.shown[k] \in Range(crawl.requested)


\* The URLs a crawl has come to know: its seed and the links of the seed's
\* domain on the pages it followed.
Discovered ==
    {crawl.requested[1]} \cup
    {href \in crawl.linked : extractDomain(href) = crawl.cw.domain}

\* The entries the loop has taken off the front of the frontier in a step.
Dequeued ==
    SubSeq(crawl.cw.urlsToVisit, 1,
           Len(crawl.cw.urlsToVisit) - Len(crawl'.cw.urlsToVisit))

\* C40: in a crawlWebsite invocation the requests issued, the visited set
\* and the page count always agree; a turn of the loop takes visited URLs
\* off the frontier without a request and without counting a page, and
\* requests at most one URL, which was not visited; and a crawl that has
\* returned has requested as many distinct URLs as its budget allows of
\* those it has come to know.
C40_SkippedDuplicateCostsNothing ==
    [][ /\ Len(crawl'.requested) = Cardinality(crawl'.cw.visitedUrls)
        /\ Len(crawl'.requested) = crawl'.cw.pagesVisited
        /\ Range(crawl'.requested) = crawl'.cw.visitedUrls
        /\ crawl.status = "delay" =>
               LET fetches == Len(crawl'.requested) - Len(crawl.requested)
               IN  /\ fetches \in {0, 1}
                   /\ crawl'.cw.pagesVisited = crawl.cw.pagesVisited + fetches
                   /\ \A k \in DOMAIN Dequeued :
                          \/ Dequeued[k] \in crawl.cw.visitedUrls
                          \/ /\ k = Len(Dequeued)
                             /\ fetches = 1
                             /\ Dequeued[k] = crawl'.requested[Len(crawl'.requested)]
                   /\ fetches = 0 => crawl'.status = "returned"
        /\ crawl'.status = "returned" =>
               Len(crawl'.requested) =
                   Min({crawl'.budget, Cardinality(Discovered')}) ]_vars

\* A crawl with pages to spare whose first page linked twice to one URL of
\* its domain and to nothing else: the URL was requested once, and its
\* second entry left the frontier without a request.
C40_Witness ==
    /\ crawl.status = "returned"
    /\ crawl.budget = DefaultMaxPages
    /\ Len(crawl.requested) = 2
    /\ crawl.cw.pagesVisited = 2
    /\ Len(crawl.shown) = 2
    /\ crawl.shown[1] = crawl.shown[2]
    /\ crawl.shown[1] = crawl.requested[2]
    /\ crawl.outcomes[2] = "ok"

=============================================================================
